---- MODULE Spec2Model ----
(***************************************************************************)
(* Shape-grid art editors of Pepper-studio/shape-grid-art.                 *)
(*                                                                         *)
(* The repository holds several stand-alone pages that share one design:   *)
(*   V1   10x10, click places or selects              (part_001:709-1116)  *)
(*   V2   10x10, Stamp / Select modes                 (part_000)           *)
(*   V4   5x5, modes, select all, drag-move           (part_002)           *)
(*   V5   5x5, V4 + Deselect                          (script.js:1-738)    *)
(*   V9   5x5, V5 + output size + Randomize           (part_004)           *)
(*   SB   5x5, "clean" Shape Builder, group edits     (part_001:1-707)     *)
(*   PNG4 4x4 click-cycle editor with undo            (script.js:740-950)  *)
(*   P3   4x4 click-cycle editor without undo         (part_003)           *)
(* One page runs at a time: `variant' is fixed by Init.  Every event       *)
(* handler of a page is one action.                                        *)
(***************************************************************************)
EXTENDS Integers, Sequences, FiniteSets, TLC

VARIABLES
  variant,           \* which page is loaded
  cells,             \* cells[i]: the .shape node of cell i (its dataset), or Null
  clickCount,        \* P3, PNG4: cell.dataset.clickCount, one string per cell
  history,           \* undo stack, oldest first
  currentMode,       \* "stamp" | "select"            (SB: state.mode)
  currentColor,      \*                               (SB: state.color)
  currentShapeType,  \* "square" | "rounded"          (SB: state.shapeType)
  currentOutputSize, \* V9 / SB: 2..5                 (SB: state.outputSize)
  selectedCell,      \* primary selection or NoCell   (SB: state.anchor)
  multiSelected,     \* Set in insertion order        (SB: state.selected)
  isDragging,
  dragFromCell,
  editEnabled,       \* V4: the Rotate / Mirror / Delete buttons are enabled
  exporting,         \* P3, PNG4: the grid carries the 'exporting' class
  rendering,         \* P3, PNG4: the grids handed to html2canvas calls that
                     \* have not settled yet
  last,              \* history variable: the handler that ran last and its branch
  run,               \* history variable: operations and undos counted by SpecDeep,
                     \* edit-panel operations counted by SpecGroup
  shadow             \* history variable: the grid as it stood before each
                     \* mutating operation that is still on the undo stack

vars == <<variant, cells, clickCount, history, currentMode, currentColor,
          currentShapeType, currentOutputSize, selectedCell, multiSelected,
          isDragging, dragFromCell, editEnabled, exporting, rendering,
          last, run, shadow>>

----------------------------------------------------------------------------
(* Program constants *)

HISTORY_MAX == 100

COLORS == [blue |-> "#6396fc", yellow |-> "#ffdd35"]
ColorSet == {COLORS.blue, COLORS.yellow}
ShapeTypes == {"square", "rounded"}
Rotations == {0, 90, 180, 270}

Modes5 == {"V4", "V5", "V9", "SB"}
Modes10 == {"V1", "V2"}
DragVariants == {"V5", "V9", "SB"}
AllVariants == {"V1", "V2", "V4", "V5", "V9", "SB", "PNG4"}
\* the 4x4 click-cycle editors: P3 (part_003, no undo) and PNG4
Editors4 == {"P3", "PNG4"}

GRID_SIZE(v) == IF v \in Modes10 THEN 10 ELSE IF v \in Editors4 THEN 4 ELSE 5

N == GRID_SIZE(variant)
Cells == 0 .. (N * N - 1)
RowOf(i) == i \div N
ColOf(i) == i % N
CellAt(r, c) == r * N + c

Null == [null |-> TRUE]
NoCell == 0 - 1

----------------------------------------------------------------------------
(* Cell data.  A shape lives in the DOM as a node whose dataset holds      *)
(* strings; handlers work on typed records read back from it.              *)

\* String(n), as used for dataset.rotation
String(n) == ToString(n)

\* String(!!b), as used for dataset.mirrorX / dataset.mirrorY
BoolString(b) == IF b THEN "true" ELSE "false"

\* the numbers whose decimal form parseInt is asked to read back
ParseDomain == {90 * k : k \in 0 .. 8} \cup (0 .. 8)

\* parseInt(s, 10) || 0
ParseIntOr0(s) ==
  IF \E n \in ParseDomain : String(n) = s
    THEN CHOOSE n \in ParseDomain : String(n) = s
    ELSE 0

readCellData(node) ==
  IF node = Null THEN Null
  ELSE [shapeType |-> IF node.shapeType = "" THEN "square" ELSE node.shapeType,
        color     |-> IF node.color = "" THEN COLORS.blue ELSE node.color,
        rotation  |-> ParseIntOr0(node.rotation),
        mirrorX   |-> (node.mirrorX = "true"),
        mirrorY   |-> (node.mirrorY = "true")]

\* the node writeCellData leaves in a cell (Null: the node is removed)
ShapeNode(data) ==
  IF data = Null THEN Null
  ELSE [shapeType |-> data.shapeType,
        color     |-> data.color,
        rotation  |-> String(data.rotation),
        mirrorX   |-> BoolString(data.mirrorX),
        mirrorY   |-> BoolString(data.mirrorY)]

\* mutant: the write spills into the next cell
writeCellDataAndNext(g, i, data) ==
  [j \in DOMAIN g |-> IF j = i \/ j = i + 1 THEN ShapeNode(data) ELSE g[j]]

\* existing.remove() and, for data, a new .shape node with its dataset
writeCellData(g, i, data) == [g EXCEPT ![i] = ShapeNode(data)]

hasShape(g, i) == g[i] # Null

\* mutant: the current shape kind is ignored
StampDataSquare(shapeType, color) ==
  [shapeType |-> "square", color |-> color, rotation |-> 0,
   mirrorX |-> FALSE, mirrorY |-> FALSE]

\* the data a stamp writes
StampData(shapeType, color) ==
  [shapeType |-> shapeType, color |-> color, rotation |-> 0,
   mirrorX |-> FALSE, mirrorY |-> FALSE]

EmptyCells(v) == [i \in 0 .. (GRID_SIZE(v) * GRID_SIZE(v) - 1) |-> Null]

----------------------------------------------------------------------------
(* History *)

\* cells.map(readCellData): one typed record (or null) per cell
snapshot(g) == [i \in DOMAIN g |-> readCellData(g[i])]

\* mutant: no cap
PushedNoCap(h, s) == Append(h, s)

\* history.push(s); if (history.length > 100) history.shift()
Pushed(h, s) ==
  LET h1 == Append(h, s)
  IN  IF Len(h1) > HISTORY_MAX THEN Tail(h1) ELSE h1

\* mutant: the snapshot is pushed twice
pushStateTwice(h, g) == Pushed(Pushed(h, snapshot(g)), snapshot(g))

pushState(h, g) == Pushed(h, snapshot(g))

\* mutant: cells that were empty in the snapshot are skipped
restoreStateKeep(snap) ==
  [i \in DOMAIN snap |-> IF snap[i] = Null THEN cells[i] ELSE ShapeNode(snap[i])]

\* cells.forEach((cell, i) => writeCellData(cell, snapshot[i]))
restoreState(snap) == [i \in DOMAIN snap |-> ShapeNode(snap[i])]

\* mutant: the top is read but not removed
PoppedPeek(h) == h

\* history.pop(): the stack that is left
Popped(h) == SubSeq(h, 1, Len(h) - 1)

----------------------------------------------------------------------------
(* Selection helpers *)

Range(q) == {q[k] : k \in DOMAIN q}

\* mutant: the filled cells from the last one to the first
FilledCellsBackwards(g) ==
  LET f == SelectSeq([k \in 1 .. (N * N) |-> k - 1], LAMBDA i : hasShape(g, i))
  IN  [k \in 1 .. Len(f) |-> f[Len(f) + 1 - k]]

\* cells.filter(hasShape): the filled cells in row-major order
FilledCells(g) ==
  SelectSeq([k \in 1 .. (N * N) |-> k - 1], LAMBDA i : hasShape(g, i))

\* mutant: the primary cell is kept
clearSelectionKeepAnchor ==
  /\ selectedCell' = selectedCell
  /\ multiSelected' = <<>>

\* selectedCell = null; multiSelected.clear()      (SB: selected.clear(), anchor = null)
clearSelection ==
  /\ selectedCell' = NoCell
  /\ multiSelected' = <<>>

\* V2/V4/V5/V9 selectCell: single-select clears multi.  SB selectSingle: the
\* set holds the one cell and it is the anchor.
selectCell(c) ==
  /\ selectedCell' = c
  /\ multiSelected' = IF variant = "SB" THEN <<c>> ELSE <<>>

\* mutant: the group gets no primary cell
selectGroupNoAnchor(g, list) ==
  /\ multiSelected' = SelectSeq(list, LAMBDA i : hasShape(g, i))
  /\ selectedCell' = NoCell

\* V9 selectGroup / SB selectMany / the inline loops of V4 and V5: keep the
\* cells that hold a shape in g, the first one kept is the primary / anchor
selectGroup(g, list) ==
  LET kept == SelectSeq(list, LAMBDA i : hasShape(g, i))
  IN  /\ multiSelected' = kept
      /\ selectedCell' = IF kept = <<>> THEN NoCell ELSE kept[1]

\* the cells a delete or a move acts on
\* V4/V5/V9: multiSelected if non-empty, else [selectedCell]; SB: state.selected
moveCells ==
  IF variant = "SB" THEN multiSelected
  ELSE IF multiSelected # <<>> THEN multiSelected
  ELSE IF selectedCell # NoCell THEN <<selectedCell>>
  ELSE <<>>

Selection == Range(moveCells)

Last(op, out) == [op |-> op, out |-> out]

\* a pointerup and the cell under the pointer (NoCell: none, or not looked up)
LastDrop(out, to) == [op |-> "pointerup", out |-> out, to |-> to]

----------------------------------------------------------------------------
(* State after construction *)

PNG_BLUE == "#6490E8"
PNG_OTHER == "#F2C14E"
PngColors == {PNG_BLUE, PNG_OTHER}

InitOf(vs) ==
  /\ variant \in vs
  /\ cells = EmptyCells(variant)
  /\ clickCount = IF variant \in Editors4 THEN [i \in 0 .. 15 |-> "0"] ELSE <<>>
  /\ history = <<>>
  /\ currentMode = "stamp"
  /\ currentColor = IF variant \in Editors4 THEN PNG_BLUE ELSE COLORS.blue
  /\ currentShapeType = "square"
  /\ currentOutputSize = 5
  /\ selectedCell = NoCell
  /\ multiSelected = <<>>
  /\ isDragging = FALSE
  /\ dragFromCell = NoCell
  /\ editEnabled = FALSE
  /\ exporting = FALSE
  /\ rendering = <<>>
  /\ last = Last("init", "")
  /\ run = [ops |-> 0, undos |-> 0, streak |-> 0, edits |-> 0]
  /\ shadow = <<>>

Init == InitOf(AllVariants)

----------------------------------------------------------------------------
(* Click on a cell *)

\* V4 setEditEnabled(enabled), called when `called' holds: rotateBtn,
\* mirrorXBtn, mirrorYBtn and deleteBtn .disabled = !enabled
setEditEnabled(called, enabled) ==
  editEnabled' = IF variant = "V4" /\ called THEN enabled ELSE editEnabled

\* V2, V4, V5, V9 handleCellClick; SB grid click listener + stampCell
handleCellClick(c) ==
  /\ variant \in {"V2", "V4", "V5", "V9", "SB"}
  /\ IF currentMode = "stamp"
       THEN /\ history' = pushState(history, cells)
            /\ cells' = writeCellData(cells, c, StampData(currentShapeType, currentColor))
            /\ clearSelection
            /\ last' = Last("click", "stamp")
       ELSE IF readCellData(cells[c]) = Null
         THEN /\ clearSelection
              /\ last' = Last("click", "empty")
              /\ UNCHANGED <<cells, history>>
         ELSE /\ selectCell(c)
              /\ last' = Last("click", "select")
              /\ UNCHANGED <<cells, history>>
  \* V4: clearSelection() disables, selectCell(cell) enables
  /\ setEditEnabled(TRUE, last'.out = "select")
  /\ UNCHANGED <<variant, exporting, rendering,
                 clickCount, currentMode, currentColor, currentShapeType,
                 currentOutputSize, isDragging, dragFromCell>>

\* V1 handleCellClick: an empty cell is stamped and selected, a filled one selected
handleCellClickV1(c) ==
  /\ variant = "V1"
  /\ IF readCellData(cells[c]) = Null
       THEN /\ history' = pushState(history, cells)
            /\ cells' = writeCellData(cells, c, StampData(currentShapeType, currentColor))
            /\ last' = Last("click", "stamp")
       ELSE /\ last' = Last("click", "select")
            /\ UNCHANGED <<cells, history>>
  /\ selectCell(c)
  /\ UNCHANGED <<variant, editEnabled, exporting, rendering,
                 clickCount, currentMode, currentColor, currentShapeType,
                 currentOutputSize, isDragging, dragFromCell>>

----------------------------------------------------------------------------
(* Mode, tools *)

\* setMode: V9 and SB clear the selection on entering Stamp; V2, V4, V5 keep it
setMode(mode) ==
  /\ currentMode' = mode
  /\ IF mode = "stamp" /\ variant \in {"V9", "SB"}
       THEN clearSelection
       ELSE UNCHANGED <<selectedCell, multiSelected>>

ModeClick(mode) ==
  /\ variant \in {"V2", "V4", "V5", "V9", "SB"}
  /\ setMode(mode)
  /\ last' = Last("mode", mode)
  \* V4 setMode: off in Stamp, on in Select when the primary cell holds a shape
  /\ setEditEnabled(TRUE, /\ mode = "select"
                          /\ selectedCell # NoCell
                          /\ readCellData(cells[selectedCell]) # Null)
  /\ UNCHANGED <<variant, exporting, rendering,
                 cells, clickCount, history, currentColor, currentShapeType,
                 currentOutputSize, isDragging, dragFromCell>>

\* V9 backBtn, SB "back": setMode("stamp")
BackClick ==
  /\ variant \in {"V9", "SB"}
  /\ setMode("stamp")
  /\ last' = Last("mode", "stamp")
  /\ UNCHANGED <<variant, editEnabled, exporting, rendering,
                 cells, clickCount, history, currentColor, currentShapeType,
                 currentOutputSize, isDragging, dragFromCell>>

ShapeClick(t) ==
  /\ variant \notin Editors4
  /\ currentShapeType' = t
  /\ last' = Last("tool", "")
  /\ UNCHANGED <<variant, editEnabled, exporting, rendering,
                 cells, clickCount, history, currentMode, currentColor,
                 currentOutputSize, selectedCell, multiSelected, isDragging,
                 dragFromCell>>

ColorClick(col) ==
  /\ col \in (IF variant \in Editors4 THEN PngColors ELSE ColorSet)
  /\ currentColor' = col
  /\ last' = Last("tool", "")
  /\ UNCHANGED <<variant, editEnabled, exporting, rendering,
                 cells, clickCount, history, currentMode, currentShapeType,
                 currentOutputSize, selectedCell, multiSelected, isDragging,
                 dragFromCell>>

\* V9 setOutputSize; SB output-row listener
OutputSizeClick(n) ==
  /\ variant \in {"V9", "SB"}
  /\ currentOutputSize' = n
  /\ last' = Last("tool", "")
  /\ UNCHANGED <<variant, editEnabled, exporting, rendering,
                 cells, clickCount, history, currentMode, currentColor,
                 currentShapeType, selectedCell, multiSelected, isDragging,
                 dragFromCell>>

----------------------------------------------------------------------------
(* Select all, Deselect *)

SelectAll ==
  /\ variant \in {"V4", "V5", "V9", "SB"}
  /\ IF currentMode # "select"
       THEN /\ UNCHANGED <<selectedCell, multiSelected>>
            /\ last' = Last("selectAll", "ignored")
       ELSE IF FilledCells(cells) = <<>>
         THEN \* V4, V5: the selection is rebuilt empty; V9: clearSelection;
              \* SB: returns before touching the selection
              /\ IF variant = "SB" THEN UNCHANGED <<selectedCell, multiSelected>>
                                   ELSE clearSelection
              /\ last' = Last("selectAll", "none")
         ELSE /\ selectGroup(cells, FilledCells(cells))
              /\ last' = Last("selectAll", "group")
  \* V4: setEditEnabled(multiSelected.size > 0)
  /\ setEditEnabled(currentMode = "select", multiSelected' # <<>>)
  /\ UNCHANGED <<variant, exporting, rendering,
                 cells, clickCount, history, currentMode, currentColor,
                 currentShapeType, currentOutputSize, isDragging, dragFromCell>>

Deselect ==
  /\ variant \in {"V5", "V9", "SB"}
  /\ IF currentMode # "select" /\ variant # "SB"
       THEN /\ UNCHANGED <<selectedCell, multiSelected>>
            /\ last' = Last("deselect", "ignored")
       ELSE /\ clearSelection
            /\ last' = Last("deselect", "cleared")
  /\ UNCHANGED <<variant, editEnabled, exporting, rendering,
                 cells, clickCount, history, currentMode, currentColor,
                 currentShapeType, currentOutputSize, isDragging, dragFromCell>>

----------------------------------------------------------------------------
(* Rotate, Mirror, Delete *)

\* mutant: no wrap at 360
RotateNoWrap(d) == [d EXCEPT !.rotation = d.rotation + 90]

\* data.rotation = (data.rotation + 90) % 360
RotateData(d) == [d EXCEPT !.rotation = (d.rotation + 90) % 360]

\* mutant: the flag is set, not toggled
MirrorXSet(d) == [d EXCEPT !.mirrorX = TRUE]

\* data.mirrorX = !data.mirrorX
MirrorXData(d) == [d EXCEPT !.mirrorX = ~d.mirrorX]

\* mutant: a mirror also reflects the angle
MirrorYReflect(d) ==
  [d EXCEPT !.mirrorY = ~d.mirrorY, !.rotation = (360 - d.rotation) % 360]

\* data.mirrorY = !data.mirrorY
MirrorYData(d) == [d EXCEPT !.mirrorY = ~d.mirrorY]

Mutate(kind, d) ==
  CASE kind = "rotate"  -> RotateData(d)
    [] kind = "mirrorX" -> MirrorXData(d)
    [] kind = "mirrorY" -> MirrorYData(d)

\* mutant: a group selection is not turned away
requireEditableSelectionAny ==
  /\ variant = "V1" \/ currentMode = "select"
  /\ selectedCell # NoCell
  /\ readCellData(cells[selectedCell]) # Null

\* mutant: the mode is not looked at
requireEditableSelectionAnyMode ==
  /\ variant \in {"V1", "V2"} \/ multiSelected = <<>>
  /\ selectedCell # NoCell
  /\ readCellData(cells[selectedCell]) # Null

\* V1: a selected cell that holds a shape.  V2 requireEditableSelection: and
\* Select mode.  V4 requireEditableSelection, V5 requireEditableSingleSelection,
\* V9 hasSingleSelectionWithData: and no group selection.
requireEditableSingleSelection ==
  /\ variant = "V1" \/ currentMode = "select"
  /\ variant \in {"V1", "V2"} \/ multiSelected = <<>>
  /\ selectedCell # NoCell
  /\ readCellData(cells[selectedCell]) # Null

\* mutant: only the anchor is edited
ApplyAnchorOnly(g, list, kind) ==
  IF list = <<>> \/ readCellData(g[Head(list)]) = Null THEN g
  ELSE writeCellData(g, Head(list), Mutate(kind, readCellData(g[Head(list)])))

\* SB applyToSelection: every selected cell that holds a shape, in set order
RECURSIVE ApplyAll(_, _, _)
ApplyAll(g, list, kind) ==
  IF list = <<>> THEN g
  ELSE LET c == Head(list)
           d == readCellData(g[c])
       IN  ApplyAll(IF d = Null THEN g ELSE writeCellData(g, c, Mutate(kind, d)),
                    Tail(list), kind)

Edit(kind) ==
  /\ variant \notin Editors4
  /\ IF variant = "SB"
       THEN IF currentMode = "select" /\ multiSelected # <<>>
              THEN /\ history' = pushState(history, cells)
                   /\ cells' = ApplyAll(cells, multiSelected, kind)
                   /\ last' = Last(kind, "applied")
              ELSE /\ UNCHANGED <<cells, history>>
                   /\ last' = Last(kind, "ignored")
       ELSE IF requireEditableSingleSelection
              THEN /\ history' = pushState(history, cells)
                   /\ cells' = writeCellData(cells, selectedCell,
                                  Mutate(kind, readCellData(cells[selectedCell])))
                   /\ last' = Last(kind, "applied")
              ELSE /\ UNCHANGED <<cells, history>>
                   /\ last' = Last(kind, "ignored")
  /\ UNCHANGED <<variant, editEnabled, exporting, rendering,
                 clickCount, currentMode, currentColor, currentShapeType,
                 currentOutputSize, selectedCell, multiSelected, isDragging,
                 dragFromCell>>

Rotate == Edit("rotate")
MirrorX == Edit("mirrorX")
MirrorY == Edit("mirrorY")

\* mutant: only the first cell of the list is emptied
ClearCellsFirst(g, list) ==
  [i \in DOMAIN g |-> IF list # <<>> /\ i = list[1] THEN ShapeNode(Null) ELSE g[i]]

\* cellList.forEach((cell) => writeCellData(cell, null))
ClearCells(g, list) ==
  [i \in DOMAIN g |-> IF i \in Range(list) THEN ShapeNode(Null) ELSE g[i]]

Delete ==
  /\ variant \notin Editors4
  /\ IF variant \in {"V1", "V2"}
       THEN IF requireEditableSingleSelection
              THEN /\ history' = pushState(history, cells)
                   /\ cells' = writeCellData(cells, selectedCell, Null)
                   /\ clearSelection
                   /\ last' = Last("delete", "single")
              ELSE /\ UNCHANGED <<cells, history, selectedCell, multiSelected>>
                   /\ last' = Last("delete", "ignored")
     ELSE IF currentMode # "select"
       THEN /\ UNCHANGED <<cells, history, selectedCell, multiSelected>>
            /\ last' = Last("delete", "ignored")
     ELSE IF multiSelected # <<>>
       THEN \* V4, V5, V9 group delete; SB deleteSelection
            /\ history' = pushState(history, cells)
            /\ cells' = ClearCells(cells, multiSelected)
            /\ clearSelection
            /\ last' = Last("delete", "group")
     ELSE IF variant # "SB" /\ requireEditableSingleSelection
       THEN /\ history' = pushState(history, cells)
            /\ cells' = writeCellData(cells, selectedCell, Null)
            /\ clearSelection
            /\ last' = Last("delete", "single")
       ELSE /\ UNCHANGED <<cells, history, selectedCell, multiSelected>>
            /\ last' = Last("delete", "ignored")
  \* V4: clearSelection() after the delete
  /\ setEditEnabled(last'.out # "ignored", FALSE)
  /\ UNCHANGED <<variant, exporting, rendering,
                 clickCount, currentMode, currentColor, currentShapeType,
                 currentOutputSize, isDragging, dragFromCell>>

----------------------------------------------------------------------------
(* Clear, Undo *)

Clear ==
  /\ variant \notin Editors4
  /\ history' = pushState(history, cells)
  /\ cells' = ClearCells(cells, [k \in 1 .. (N * N) |-> k - 1])
  /\ clearSelection
  /\ last' = Last("clear", "")
  /\ setEditEnabled(TRUE, FALSE)
  /\ UNCHANGED <<variant, exporting, rendering,
                 clickCount, currentMode, currentColor, currentShapeType,
                 currentOutputSize, isDragging, dragFromCell>>

\* mutant: no `if (!last) return': restoreState(undefined) throws
UndoUnguarded ==
  /\ variant \notin Editors4
  /\ IF history = <<>>
       THEN /\ UNCHANGED <<cells, history, selectedCell, multiSelected>>
            /\ last' = Last("undo", "threw")
       ELSE /\ history' = Popped(history)
            /\ cells' = restoreState(history[Len(history)])
            /\ clearSelection
            /\ last' = Last("undo", "restored")
  /\ setEditEnabled(last'.out = "restored", FALSE)
  /\ UNCHANGED <<variant, exporting, rendering,
                 clickCount, currentMode, currentColor, currentShapeType,
                 currentOutputSize, isDragging, dragFromCell>>

\* const last = history.pop(); if (!last) return; restoreState(last);
\* V5, V9, SB then call setMode(currentMode), which in V9 and SB clears the
\* selection again when the mode is Stamp
Undo ==
  /\ variant \notin Editors4
  /\ IF history = <<>>
       THEN /\ UNCHANGED <<cells, history, selectedCell, multiSelected>>
            /\ last' = Last("undo", "empty")
       ELSE /\ history' = Popped(history)
            /\ cells' = restoreState(history[Len(history)])
            /\ clearSelection
            /\ last' = Last("undo", "restored")
  \* V4 restoreState: clearSelection()
  /\ setEditEnabled(last'.out = "restored", FALSE)
  /\ UNCHANGED <<variant, exporting, rendering,
                 clickCount, currentMode, currentColor, currentShapeType,
                 currentOutputSize, isDragging, dragFromCell>>

----------------------------------------------------------------------------
(* Drag and drop *)

PointerDown(c) ==
  /\ variant \in Modes5
  /\ IF /\ currentMode = "select"
        /\ hasShape(cells, c)                 \* the target is a .shape node
        /\ IF variant = "SB"
             THEN c \in Range(multiSelected) /\ selectedCell # NoCell
             ELSE IF multiSelected # <<>> THEN c \in Range(multiSelected)
                                          ELSE selectedCell = c
       THEN /\ isDragging' = TRUE
            /\ dragFromCell' = c
            /\ last' = Last("pointerdown", "drag")
       ELSE /\ UNCHANGED <<isDragging, dragFromCell>>
            /\ last' = Last("pointerdown", "ignored")
  /\ UNCHANGED <<variant, editEnabled, exporting, rendering,
                 cells, clickCount, history, currentMode, currentColor,
                 currentShapeType, currentOutputSize, selectedCell, multiSelected>>

\* the cell the drop delta is measured from: the drag origin in V4, V5, V9;
\* state.anchor in SB planMove
DeltaOrigin == IF variant = "SB" THEN selectedCell ELSE dragFromCell

dRowTo(to) == RowOf(to) - RowOf(DeltaOrigin)
dColTo(to) == ColOf(to) - ColOf(DeltaOrigin)

OffBoard(r, c) == r < 0 \/ c < 0 \/ r >= N \/ c >= N

\* mutant: only the first member's destination is checked
BlockedFirstOnly(g, list, dRow, dCol) ==
  /\ list # <<>>
  /\ readCellData(g[list[1]]) # Null
  /\ OffBoard(RowOf(list[1]) + dRow, ColOf(list[1]) + dCol)

\* the planning loop stops at the first filled member whose destination is
\* off the board
Blocked(g, list, dRow, dCol) ==
  \E k \in DOMAIN list :
    /\ readCellData(g[list[k]]) # Null
    /\ OffBoard(RowOf(list[k]) + dRow, ColOf(list[k]) + dCol)

\* plan.push({ src, dest, data }) for every member that holds a shape
planMove(g, list, dRow, dCol) ==
  LET filled == SelectSeq(list, LAMBDA i : readCellData(g[i]) # Null)
  IN  [k \in 1 .. Len(filled) |->
         [src  |-> filled[k],
          dest |-> CellAt(RowOf(filled[k]) + dRow, ColOf(filled[k]) + dCol),
          data |-> readCellData(g[filled[k]])]]

\* mutant: a destination that already holds a shape is left as it is
WriteDestsKeep(g, plan) ==
  [i \in DOMAIN g |->
     IF g[i] = Null /\ \E k \in DOMAIN plan : plan[k].dest = i
       THEN ShapeNode(plan[CHOOSE k \in DOMAIN plan : plan[k].dest = i].data)
       ELSE g[i]]

\* plan.forEach(({ dest, data }) => writeCellData(dest, data)), in plan order
RECURSIVE WriteDests(_, _)
WriteDests(g, plan) ==
  IF plan = <<>> THEN g
  ELSE WriteDests(writeCellData(g, Head(plan).dest, Head(plan).data), Tail(plan))

\* mutant: destinations are written before the sources are cleared
commitMoveDestsFirst(g, plan) ==
  ClearCells(WriteDests(g, plan), [k \in DOMAIN plan |-> plan[k].src])

\* clear sources first, then place at destinations
commitMove(g, plan) ==
  WriteDests(ClearCells(g, [k \in DOMAIN plan |-> plan[k].src]), plan)

\* mutant: the selection is rebuilt on the cells the shapes came from
SrcsOf(plan) == [k \in DOMAIN plan |-> plan[k].src]

\* plan.map((p) => p.dest)
DestsOf(plan) == [k \in DOMAIN plan |-> plan[k].dest]

PointerUp(to) ==
  /\ variant \in Modes5
  /\ IF ~isDragging
       THEN /\ UNCHANGED <<cells, history, selectedCell, multiSelected,
                           isDragging, dragFromCell>>
            /\ last' = LastDrop("idle", NoCell)
     ELSE
       /\ isDragging' = FALSE
       /\ IF to = NoCell
            THEN /\ dragFromCell' = NoCell
                 /\ UNCHANGED <<cells, history, selectedCell, multiSelected>>
                 /\ last' = LastDrop("outside", to)
          ELSE IF moveCells = <<>> \/ (variant = "SB" /\ selectedCell = NoCell)
            THEN /\ dragFromCell' = NoCell
                 /\ UNCHANGED <<cells, history, selectedCell, multiSelected>>
                 /\ last' = LastDrop("noselection", to)
          ELSE IF dRowTo(to) = 0 /\ dColTo(to) = 0
            THEN /\ dragFromCell' = NoCell
                 /\ UNCHANGED <<cells, history, selectedCell, multiSelected>>
                 /\ last' = LastDrop("zero", to)
          ELSE IF Blocked(cells, moveCells, dRowTo(to), dColTo(to))
            THEN /\ dragFromCell' = NoCell
                 /\ UNCHANGED <<cells, history, selectedCell, multiSelected>>
                 /\ last' = LastDrop("blocked", to)
          ELSE LET plan == planMove(cells, moveCells, dRowTo(to), dColTo(to))
                   g1   == commitMove(cells, plan)
               IN
            IF plan = <<>> /\ variant \in {"V9", "SB"}
              THEN /\ dragFromCell' = NoCell
                   /\ UNCHANGED <<cells, history, selectedCell, multiSelected>>
                   /\ last' = LastDrop("noplan", to)
            ELSE IF plan = <<>>
              THEN \* V4, V5 push the state and then fail on plan[0] / movedTo[0]:
                   \* the handler stops with a TypeError half-way through the
                   \* selection rebuild
                   /\ history' = pushState(history, cells)
                   /\ UNCHANGED <<cells, dragFromCell>>
                   /\ IF variant = "V4"
                        THEN /\ multiSelected' = <<>>
                             /\ UNCHANGED selectedCell
                        ELSE /\ selectedCell' = NoCell
                             /\ multiSelected' =
                                  IF Len(moveCells) > 1 THEN <<>> ELSE multiSelected
                   /\ last' = LastDrop("threw", to)
            ELSE /\ history' = pushState(history, cells)
                 /\ cells' = g1
                 /\ dragFromCell' = NoCell
                 /\ last' = LastDrop("moved", to)
                 /\ CASE variant = "V4" ->
                           IF Len(plan) > 1
                             THEN /\ multiSelected' = DestsOf(plan)
                                  /\ selectedCell' = plan[1].dest
                             ELSE selectCell(plan[1].dest)
                      [] variant = "V5" ->
                           IF Len(moveCells) > 1
                             THEN /\ multiSelected' = DestsOf(plan)
                                  /\ selectedCell' = plan[1].dest
                             ELSE selectCell(plan[1].dest)
                      [] variant = "V9" ->
                           IF Len(moveCells) > 1
                             THEN selectGroup(g1, DestsOf(plan))
                             ELSE selectCell(plan[1].dest)
                      [] variant = "SB" ->
                           selectGroup(g1, DestsOf(plan))
  \* V4: selectCell(plan[0].dest) after a single move; a group move leaves
  \* the buttons as they are
  /\ setEditEnabled(last'.out = "moved" /\ multiSelected' = <<>>, currentMode = "select")
  /\ UNCHANGED <<variant, exporting, rendering,
                 clickCount, currentMode, currentColor, currentShapeType,
                 currentOutputSize>>

PointerCancel ==
  /\ variant \in Modes5
  /\ IF isDragging
       THEN /\ isDragging' = FALSE
            /\ dragFromCell' = NoCell
            /\ last' = Last("pointercancel", "cancelled")
       ELSE /\ UNCHANGED <<isDragging, dragFromCell>>
            /\ last' = Last("pointercancel", "idle")
  /\ UNCHANGED <<variant, editEnabled, exporting, rendering,
                 cells, clickCount, history, currentMode, currentColor,
                 currentShapeType, currentOutputSize, selectedCell, multiSelected>>

----------------------------------------------------------------------------
(* Pointer position to cell *)

\* cellFromPointer for a pointer at (x, y) from the top left corner of a grid
\* rectangle rect.width by rect.height; Math.floor(x / (rect.width / GRID_SIZE))
\* is taken in exact arithmetic
cellFromPointer(x, y, rect) ==
  IF x < 0 \/ y < 0 \/ x > rect.width \/ y > rect.height THEN NoCell
  ELSE LET col == (x * N) \div rect.width
           row == (y * N) \div rect.height
           idx == row * N + col
       IN  IF idx \in Cells THEN idx ELSE NoCell      \* cells[idx] || null

\* pointermove during a drag: the cell under the pointer becomes the drop
\* target
PointerMove(x, y, rect) ==
  /\ variant \in Modes5
  /\ last' = IF ~isDragging THEN Last("pointermove", "idle")
             ELSE [op |-> "pointermove", out |-> "target", x |-> x, y |-> y,
                   rect |-> rect, cell |-> cellFromPointer(x, y, rect)]
  /\ UNCHANGED <<variant, editEnabled, exporting, rendering, cells, clickCount,
                 history, currentMode, currentColor, currentShapeType,
                 currentOutputSize, selectedCell, multiSelected, isDragging,
                 dragFromCell>>

----------------------------------------------------------------------------
(* Randomize (V9, SB) *)

\* mutant: the window starts in the top left corner
getTopLeftWindow(size) ==
  [startRow |-> 0, startCol |-> 0, endRow |-> size, endCol |-> size]

\* getCenteredWindow: V9 takes the size as it is, SB clamps it to 2..5
getCenteredWindow(size) ==
  LET s     == IF size < 2 THEN 2 ELSE IF size > 5 THEN 5 ELSE size
      start == (N - s) \div 2
  IN  [startRow |-> start, startCol |-> start,
       endRow |-> start + s, endCol |-> start + s]

\* mutant: the random index is used as the rotation
randomIndex(idx) == idx

\* [0, 90, 180, 270][randomInt(4)]
randomRotation(idx) == <<0, 90, 180, 270>>[idx + 1]

\* the window cells in the order the two loops visit them
WindowCells(w) ==
  LET width == w.endCol - w.startCol
      count == (w.endRow - w.startRow) * width
  IN  [k \in 1 .. count |->
         CellAt(w.startRow + ((k - 1) \div width), w.startCol + ((k - 1) % width))]

\* One run of Math.random() draws.  The k-th visited cell gets the drawn
\* shape type and colour and rotation index (r + k) mod 4; in V9 the fill test
\* Math.random() < FILL_PROB fails on the cells named by `gaps'.
DrawSkips(draw, k) ==
  \/ draw.gaps = "all"
  \/ draw.gaps = "odd" /\ k % 2 = 1

DrawData(draw, k) ==
  [shapeType |-> draw.t, color |-> draw.col,
   rotation |-> randomRotation((draw.r + k) % 4),
   mirrorX |-> FALSE, mirrorY |-> FALSE]

\* mutant: the fill test is made on every page
RECURSIVE FillWindowSparse(_, _, _, _)
FillWindowSparse(g, list, draw, k) ==
  IF k > Len(list) THEN g
  ELSE FillWindowSparse(IF DrawSkips(draw, k) THEN g
                        ELSE writeCellData(g, list[k], DrawData(draw, k)),
                        list, draw, k + 1)

RECURSIVE FillWindow(_, _, _, _)
FillWindow(g, list, draw, k) ==
  IF k > Len(list) THEN g
  ELSE FillWindow(IF variant = "V9" /\ DrawSkips(draw, k) THEN g
                  ELSE writeCellData(g, list[k], DrawData(draw, k)),
                  list, draw, k + 1)

Randomize(draw) ==
  /\ variant \in {"V9", "SB"}
  /\ history' = pushState(history, cells)
  /\ clearSelection
  /\ cells' = FillWindow(ClearCells(cells, [k \in 1 .. (N * N) |-> k - 1]),
                         WindowCells(getCenteredWindow(currentOutputSize)), draw, 1)
  /\ last' = Last("randomize", "")
  /\ UNCHANGED <<variant, editEnabled, exporting, rendering,
                 clickCount, currentMode, currentColor, currentShapeType,
                 currentOutputSize, isDragging, dragFromCell>>

----------------------------------------------------------------------------
(* Export (tight-cropped SVG) *)

CELL_PX(v) == IF v \in Modes10 THEN 64 ELSE 100

\* let minRow = Infinity: a value above every row and column index
Infinity == 2 ^ 30

\* Math.min / Math.max folded over a set of numbers
MathMin(S) == CHOOSE m \in S : \A x \in S : m <= x
MathMax(S) == CHOOSE m \in S : \A x \in S : m >= x

\* the rows and the columns of the cells that hold a .shape
UsedRows(g) == {RowOf(i) : i \in {j \in 0 .. (N * N - 1) : hasShape(g, j)}}
UsedCols(g) == {ColOf(i) : i \in {j \in 0 .. (N * N - 1) : hasShape(g, j)}}

\* mutant: the bounds start at row 0 and column 0
findUsedBoundsFromZero(g) ==
  [minRow |-> MathMin(UsedRows(g) \cup {0}), maxRow |-> MathMax(UsedRows(g) \cup {0}),
   minCol |-> MathMin(UsedCols(g) \cup {0}), maxCol |-> MathMax(UsedCols(g) \cup {0})]

\* minRow = Math.min(minRow, row), ... over every cell that holds a .shape,
\* starting from Infinity and -Infinity
findUsedBounds(g) ==
  [minRow |-> MathMin(UsedRows(g) \cup {Infinity}),
   maxRow |-> MathMax(UsedRows(g) \cup {0 - Infinity}),
   minCol |-> MathMin(UsedCols(g) \cup {Infinity}),
   maxCol |-> MathMax(UsedCols(g) \cup {0 - Infinity})]

\* mutant: the shape is placed at its board position, not at its position in
\* the crop
ShapeGroupUncropped(i, b, data) ==
  [x |-> ColOf(i) * CELL_PX(variant),
   y |-> RowOf(i) * CELL_PX(variant),
   shapeType |-> data.shapeType, fill |-> data.color, rotate |-> data.rotation,
   sx |-> IF data.mirrorX THEN 0 - 1 ELSE 1,
   sy |-> IF data.mirrorY THEN 0 - 1 ELSE 1]

\* one <g transform="translate(x y)"> ... rotate(a) ... scale(sx sy) group
ShapeGroup(i, b, data) ==
  [x |-> (ColOf(i) - b.minCol) * CELL_PX(variant),
   y |-> (RowOf(i) - b.minRow) * CELL_PX(variant),
   shapeType |-> data.shapeType, fill |-> data.color, rotate |-> data.rotation,
   sx |-> IF data.mirrorX THEN 0 - 1 ELSE 1,
   sy |-> IF data.mirrorY THEN 0 - 1 ELSE 1]

\* shapesSvg: one group per cell that readCellData finds a shape in, in
\* cell order
shapesSvg(g, b) ==
  LET filled == SelectSeq([k \in 1 .. (N * N) |-> k - 1],
                          LAMBDA i : readCellData(g[i]) # Null)
  IN  [k \in 1 .. Len(filled) |-> ShapeGroup(filled[k], b, readCellData(g[filled[k]]))]

\* <svg width height> around the groups
svgContent(g, b) ==
  [width  |-> (b.maxCol - b.minCol + 1) * CELL_PX(variant),
   height |-> (b.maxRow - b.minRow + 1) * CELL_PX(variant),
   shapes |-> shapesSvg(g, b)]

NoArtwork == "No artwork found! Place shapes before exporting."

\* the Download button: an alert when nothing is placed, else the file is
\* offered for download
Export ==
  /\ variant \notin Editors4
  /\ LET b == findUsedBounds(cells)
     IN  last' = IF b.minRow = Infinity
                   THEN [op |-> "download", out |-> "alert", alert |-> NoArtwork]
                   ELSE [op |-> "download", out |-> "svg", doc |-> svgContent(cells, b)]
  /\ UNCHANGED <<variant, editEnabled, exporting, rendering,
                 cells, clickCount, history, currentMode, currentColor,
                 currentShapeType, currentOutputSize, selectedCell, multiSelected,
                 isDragging, dragFromCell>>

----------------------------------------------------------------------------
(* The 4x4 PNG editor (PNG4) *)

\* mutant: the click count is used as the angle
RotateCssCount(angle) == "rotate(" \o String(angle \div 90) \o "deg)"

\* `rotate(${angle}deg)`
RotateCss(angle) == "rotate(" \o String(angle) \o "deg)"

\* cells.map(shape => shape ? { color, rotation: transform || 'rotate(0deg)' } : null)
\* together with cells.map(cell => cell.dataset.clickCount || '0')
snapshot4(g, cc) ==
  [snapshot |-> [i \in DOMAIN g |->
                   IF g[i] = Null THEN Null
                   ELSE [color |-> g[i].color,
                         rotation |-> IF g[i].transform = "" THEN RotateCss(0)
                                      ELSE g[i].transform]],
   clickCounts |-> [i \in DOMAIN cc |-> IF cc[i] = "" THEN "0" ELSE cc[i]]]

\* mutant: the recoloured shape is a fresh one
RecolouredFresh(node, col) == [color |-> col, transform |-> RotateCss(0)]

\* style.backgroundColor = dataset.color = currentColor
Recoloured(node, col) == [node EXCEPT !.color = col]

pushState4(h, g, cc) == Pushed(h, snapshot4(g, cc))

restoreCells4(state) ==
  [i \in DOMAIN state.snapshot |->
     IF state.snapshot[i] = Null THEN Null
     ELSE [color |-> state.snapshot[i].color,
           transform |-> state.snapshot[i].rotation]]

\* mutant: the click counts are left as they are
restoreCountsStale(state) == clickCount

\* cell.dataset.clickCount = state.clickCounts[index] || '0'
restoreCounts4(state) ==
  [i \in DOMAIN state.clickCounts |->
     IF state.clickCounts[i] = "" THEN "0" ELSE state.clickCounts[i]]

handleCellClick4(c) ==
  /\ variant = "PNG4"
  /\ history' = pushState4(history, cells, clickCount)
  /\ IF cells[c] = Null
       THEN /\ cells' = [cells EXCEPT ![c] =
                           [color |-> currentColor, transform |-> RotateCss(0)]]
            /\ UNCHANGED clickCount
            /\ last' = Last("click", "create")
     ELSE IF cells[c].color # currentColor
       THEN /\ cells' = [cells EXCEPT ![c] = Recoloured(cells[c], currentColor)]
            /\ UNCHANGED clickCount
            /\ last' = Last("click", "recolour")
     ELSE LET n == ParseIntOr0(clickCount[c]) + 1
          IN  IF n >= 4
                THEN /\ cells' = [cells EXCEPT ![c] = Null]
                     /\ clickCount' = [clickCount EXCEPT ![c] = "0"]
                     /\ last' = Last("click", "remove")
                ELSE /\ cells' = [cells EXCEPT ![c].transform = RotateCss(n * 90)]
                     /\ clickCount' = [clickCount EXCEPT ![c] = String(n)]
                     /\ last' = Last("click", "rotate")
  /\ UNCHANGED <<variant, editEnabled, exporting, rendering,
                 currentMode, currentColor, currentShapeType,
                 currentOutputSize, selectedCell, multiSelected, isDragging,
                 dragFromCell>>

Clear4 ==
  /\ variant = "PNG4"
  /\ history' = pushState4(history, cells, clickCount)
  /\ cells' = [i \in DOMAIN cells |-> Null]
  /\ clickCount' = [i \in DOMAIN clickCount |-> "0"]
  /\ last' = Last("clear", "")
  /\ UNCHANGED <<variant, editEnabled, exporting, rendering,
                 currentMode, currentColor, currentShapeType,
                 currentOutputSize, selectedCell, multiSelected, isDragging,
                 dragFromCell>>

Undo4 ==
  /\ variant = "PNG4"
  /\ IF history = <<>>
       THEN /\ UNCHANGED <<cells, clickCount, history>>
            /\ last' = Last("undo", "empty")
       ELSE /\ history' = Popped(history)
            /\ cells' = restoreCells4(history[Len(history)])
            /\ clickCount' = restoreCounts4(history[Len(history)])
            /\ last' = Last("undo", "restored")
  /\ UNCHANGED <<variant, editEnabled, exporting, rendering,
                 currentMode, currentColor, currentShapeType,
                 currentOutputSize, selectedCell, multiSelected, isDragging,
                 dragFromCell>>

----------------------------------------------------------------------------
(* The 4x4 editor without undo (P3) *)

handleCellClick3(c) ==
  /\ variant = "P3"
  /\ IF cells[c] = Null
       THEN /\ cells' = [cells EXCEPT ![c] =
                           [color |-> currentColor, transform |-> RotateCss(0)]]
            /\ clickCount' = [clickCount EXCEPT ![c] = "0"]
            /\ last' = Last("click", "create")
     ELSE IF cells[c].color # currentColor
       THEN /\ cells' = [cells EXCEPT ![c] = Recoloured(cells[c], currentColor)]
            /\ UNCHANGED clickCount
            /\ last' = Last("click", "recolour")
     ELSE LET n == ParseIntOr0(IF clickCount[c] = "" THEN "0" ELSE clickCount[c]) + 1
          IN  IF n >= 4
                THEN /\ cells' = [cells EXCEPT ![c] = Null]
                     /\ clickCount' = [clickCount EXCEPT ![c] = "0"]
                     /\ last' = Last("click", "remove")
                ELSE /\ cells' = [cells EXCEPT ![c].transform = RotateCss(n * 90)]
                     /\ clickCount' = [clickCount EXCEPT ![c] = String(n)]
                     /\ last' = Last("click", "rotate")
  /\ UNCHANGED <<variant, editEnabled, exporting, rendering,
                 history, currentMode, currentColor, currentShapeType,
                 currentOutputSize, selectedCell, multiSelected, isDragging,
                 dragFromCell>>

Clear3 ==
  /\ variant = "P3"
  /\ cells' = [i \in DOMAIN cells |-> Null]
  /\ clickCount' = [i \in DOMAIN clickCount |-> "0"]
  /\ last' = Last("clear", "")
  /\ UNCHANGED <<variant, editEnabled, exporting, rendering,
                 history, currentMode, currentColor, currentShapeType,
                 currentOutputSize, selectedCell, multiSelected, isDragging,
                 dragFromCell>>

----------------------------------------------------------------------------
(* PNG download of the 4x4 editors *)

\* 320px / 4
cellPx == 80

\* The Download click of the PNG editor: the grid is marked and handed to
\* html2canvas.  `loaded': the html2canvas script has been loaded; without it
\* the call throws after the mark is set.
Download4(loaded) ==
  /\ variant = "PNG4"
  /\ exporting' = TRUE
  /\ IF loaded
       THEN /\ rendering' = Append(rendering, cells)
            /\ last' = Last("download", "started")
       ELSE /\ UNCHANGED rendering
            /\ last' = Last("download", "threw")
  /\ UNCHANGED <<variant, editEnabled, cells, clickCount, history, currentMode,
                 currentColor, currentShapeType, currentOutputSize, selectedCell,
                 multiSelected, isDragging, dragFromCell>>

\* part_003 tests typeof html2canvas before it marks the grid
Download3(loaded) ==
  /\ variant = "P3"
  /\ IF loaded
       THEN /\ exporting' = TRUE
            /\ rendering' = Append(rendering, cells)
            /\ last' = Last("download", "started")
       ELSE /\ UNCHANGED <<exporting, rendering>>
            /\ last' = Last("download", "alert")
  /\ UNCHANGED <<variant, editEnabled, cells, clickCount, history, currentMode,
                 currentColor, currentShapeType, currentOutputSize, selectedCell,
                 multiSelected, isDragging, dragFromCell>>

Without(q, k) == [j \in 1 .. (Len(q) - 1) |-> IF j < k THEN q[j] ELSE q[j + 1]]

\* the callback reads the bounds of the grid as it stands when it runs
BoundsAtCallback(canvas, g) == findUsedBounds(g)

\* .then((canvas) => ...) of the PNG editor for the k-th pending call: the
\* mark is removed and the canvas is cropped to findUsedBounds()
Rendered4(k) ==
  /\ variant = "PNG4"
  /\ k \in DOMAIN rendering
  /\ exporting' = FALSE
  /\ rendering' = Without(rendering, k)
  /\ LET b == BoundsAtCallback(rendering[k], cells)
     IN  last' = IF b.minRow = Infinity
                   THEN [op |-> "rendered", out |-> "alert", alert |-> NoArtwork,
                         canvas |-> rendering[k]]
                   ELSE [op |-> "rendered", out |-> "png", canvas |-> rendering[k],
                         crop |-> [x |-> b.minCol * cellPx * 2,
                                   y |-> b.minRow * cellPx * 2,
                                   w |-> (b.maxCol - b.minCol + 1) * cellPx * 2,
                                   h |-> (b.maxRow - b.minRow + 1) * cellPx * 2]]
  /\ UNCHANGED <<variant, editEnabled, cells, clickCount, history, currentMode,
                 currentColor, currentShapeType, currentOutputSize, selectedCell,
                 multiSelected, isDragging, dragFromCell>>

\* the promise of the PNG editor is rejected: there is no .catch
Rejected4(k) ==
  /\ variant = "PNG4"
  /\ k \in DOMAIN rendering
  /\ rendering' = Without(rendering, k)
  /\ last' = Last("rendered", "rejected")
  /\ UNCHANGED <<variant, editEnabled, exporting, cells, clickCount, history,
                 currentMode, currentColor, currentShapeType, currentOutputSize,
                 selectedCell, multiSelected, isDragging, dragFromCell>>

\* .then((canvas) => ...) of part_003: the mark is removed and the whole
\* canvas is offered for download
Rendered3(k) ==
  /\ variant = "P3"
  /\ k \in DOMAIN rendering
  /\ exporting' = FALSE
  /\ rendering' = Without(rendering, k)
  /\ last' = [op |-> "rendered", out |-> "png", canvas |-> rendering[k]]
  /\ UNCHANGED <<variant, editEnabled, cells, clickCount, history, currentMode,
                 currentColor, currentShapeType, currentOutputSize, selectedCell,
                 multiSelected, isDragging, dragFromCell>>

\* .catch((error) => ...) of part_003
Rejected3(k) ==
  /\ variant = "P3"
  /\ k \in DOMAIN rendering
  /\ exporting' = FALSE
  /\ rendering' = Without(rendering, k)
  /\ last' = Last("rendered", "rejected")
  /\ UNCHANGED <<variant, editEnabled, cells, clickCount, history, currentMode,
                 currentColor, currentShapeType, currentOutputSize, selectedCell,
                 multiSelected, isDragging, dragFromCell>>

----------------------------------------------------------------------------
(* History variables *)

\* the handler branches that are mutating operations: stamp, rotate, mirror,
\* delete, move, clear, randomize, 4x4 cell click
Mutating(l) ==
  \/ l.op = "click" /\ l.out \in {"stamp", "create", "recolour", "rotate", "remove"}
  \/ l.op \in {"rotate", "mirrorX", "mirrorY"} /\ l.out = "applied"
  \/ l.op = "delete" /\ l.out \in {"single", "group"}
  \/ l.op = "pointerup" /\ l.out \in {"moved", "threw"}
  \/ l.op \in {"clear", "randomize"}

\* ops: mutating operations since the page loaded; undos: Undo clicks after
\* them; streak: how many of the latest mutating operations, up to 4, were
\* Rotate
Counted(l) ==
  IF l.op = "undo"
    THEN [ops |-> run.ops, undos |-> run.undos + 1, streak |-> 0,
          edits |-> run.edits]
  ELSE IF Mutating(l)
    THEN [ops |-> run.ops + 1, undos |-> run.undos,
          streak |-> IF l.op = "rotate"
                       THEN (IF run.streak = 4 THEN 4 ELSE run.streak + 1)
                       ELSE 0,
          edits |-> run.edits]
  ELSE run

\* the grid before the step is remembered when a mutating operation runs and
\* forgotten when an Undo restores
Shadowed(l) ==
  IF l.op = "undo" /\ l.out = "restored" THEN Popped(shadow)
  ELSE IF Mutating(l)
    THEN Pushed(shadow, [cells |-> cells, clickCount |-> clickCount])
  ELSE shadow

Observe == run' = run /\ shadow' = Shadowed(last')

ObserveDeep == run' = Counted(last') /\ shadow' = shadow

\* the Rotate, Mirror and Delete clicks that changed the grid
EditApplied(l) == l.op \in {"rotate", "mirrorX", "mirrorY", "delete"} /\ Mutating(l)

ObserveGroup ==
  /\ run' = IF EditApplied(last') THEN [run EXCEPT !.edits = @ + 1] ELSE run
  /\ shadow' = shadow

----------------------------------------------------------------------------
(* Spec: every handler of every page, explored while the undo stack holds  *)
(* fewer than MaxOps snapshots                                             *)

MaxOps == 2

Open == Len(history) < MaxOps

\* cells offered to a stamping click
StampCells ==
  IF variant \in Modes10 THEN {0, 11}
  ELSE IF variant = "PNG4" THEN {0, 5}
  ELSE {0, 6}

\* cells offered to a selecting click and to a pointerdown
TouchCells == IF variant \in Modes10 THEN {0, 11} ELSE {0, 6, 7}

ClickCells ==
  IF variant \in Modes5 /\ currentMode = "select" THEN TouchCells ELSE StampCells

\* cells a drag is released over; NoCell: outside the grid
DropCells == {1, 6, 24, NoCell}

OutputSizes == {2}

\* outcomes of the Math.random() calls of one Randomize
RandomDraws ==
  {[t |-> "square", col |-> COLORS.blue, r |-> 0, gaps |-> "none"],
   [t |-> "rounded", col |-> COLORS.yellow, r |-> 2, gaps |-> "odd"]}

Next ==
  \/ \E c \in ClickCells : Open /\ handleCellClick(c) /\ Observe
  \/ \E c \in ClickCells : Open /\ handleCellClickV1(c) /\ Observe
  \/ \E m \in {"stamp", "select"} : Open /\ ModeClick(m) /\ Observe
  \/ Open /\ BackClick /\ Observe
  \/ \E t \in ShapeTypes : Open /\ ShapeClick(t) /\ Observe
  \/ \E col \in ColorSet \cup PngColors : Open /\ ColorClick(col) /\ Observe
  \/ \E n \in OutputSizes : Open /\ OutputSizeClick(n) /\ Observe
  \/ Open /\ SelectAll /\ Observe
  \/ Open /\ Deselect /\ Observe
  \/ Open /\ Rotate /\ Observe
  \/ Open /\ MirrorX /\ Observe
  \/ Open /\ MirrorY /\ Observe
  \/ Open /\ Delete /\ Observe
  \/ Open /\ Clear /\ Observe
  \/ Undo /\ Observe
  \/ \E c \in TouchCells : Open /\ PointerDown(c) /\ Observe
  \/ \E to \in DropCells : Open /\ PointerUp(to) /\ Observe
  \/ Open /\ PointerCancel /\ Observe
  \/ \E d \in RandomDraws : Open /\ Randomize(d) /\ Observe
  \/ \E c \in StampCells : Open /\ handleCellClick4(c) /\ Observe
  \/ Open /\ Clear4 /\ Observe
  \/ Undo4 /\ Observe

Spec == Init /\ [][Next]_vars

----------------------------------------------------------------------------
(* SpecMove: the drag-move editors V5, V9 and SB, stamping two cells and    *)
(* dragging single shapes and groups                                       *)

MaxMoveOps == 3

OpenMove == Len(history) < MaxMoveOps

\* (0,0) and (1,1)
MoveStampCells == {0, 6}

MoveDropCells == {0, 1, 6, 24, NoCell}

MoveTouchCells == MoveStampCells \cup (MoveDropCells \ {NoCell})

MoveClickCells == IF currentMode = "select" THEN MoveTouchCells ELSE MoveStampCells

InitMove == InitOf(DragVariants)

\* only events that act are offered: a click in Select mode goes to a shape,
\* a drag starts on a selected cell, a release or a cancel ends a drag
NextMove ==
  \/ \E c \in MoveClickCells :
        /\ OpenMove
        /\ currentMode = "select" => hasShape(cells, c)
        /\ handleCellClick(c)
        /\ Observe
  \/ \E m \in {"stamp", "select"} : OpenMove /\ m # currentMode /\ ModeClick(m) /\ Observe
  \/ \E col \in ColorSet :
        OpenMove /\ currentMode = "stamp" /\ col # currentColor /\ ColorClick(col) /\ Observe
  \/ OpenMove /\ currentMode = "select" /\ SelectAll /\ Observe
  \/ OpenMove /\ requireEditableSingleSelection /\ Rotate /\ Observe
  \/ Undo /\ Observe
  \/ \E c \in MoveTouchCells : OpenMove /\ c \in Selection /\ PointerDown(c) /\ Observe
  \/ \E to \in MoveDropCells : OpenMove /\ isDragging /\ PointerUp(to) /\ Observe
  \/ OpenMove /\ isDragging /\ PointerCancel /\ Observe

SpecMove == InitMove /\ [][NextMove]_vars

----------------------------------------------------------------------------
(* SpecDeep: one cell is stamped and rotated (4x4 editor: clicked) until   *)
(* the undo stack overflows, then Undo is clicked once per operation; the  *)
(* grid is cleared once the stack is full, and a shape that survives the   *)
(* undos is selected again                                                 *)

MaxOverflow == 2

DeepCells == {0}

\* operations come first, the undos after them
Doing == run.undos = 0 /\ run.ops < HISTORY_MAX + MaxOverflow

Undoing == run.ops > 0 /\ run.undos < run.ops

\* the undo stack has been emptied and a shape is left to select
Reselecting(c) ==
  run.undos > 0 /\ history = <<>> /\ Selection = {} /\ hasShape(cells, c)

NextDeep ==
  \/ \E c \in DeepCells :
        /\ Doing
        /\ hasShape(cells, c) <=> currentMode = "select"
        /\ handleCellClick(c)
        /\ ObserveDeep
  \/ \E c \in DeepCells :
        Doing /\ ~hasShape(cells, c) /\ handleCellClickV1(c) /\ ObserveDeep
  \/ Doing /\ currentMode = "stamp" /\ ModeClick("select") /\ ObserveDeep
  \/ Doing /\ Rotate /\ ObserveDeep
  \/ Doing /\ run.ops >= HISTORY_MAX /\ Clear /\ ObserveDeep
  \/ Undoing /\ Undo /\ ObserveDeep
  \/ \E c \in DeepCells : Reselecting(c) /\ handleCellClick(c) /\ ObserveDeep
  \/ \E c \in DeepCells : Reselecting(c) /\ handleCellClickV1(c) /\ ObserveDeep
  \/ \E c \in DeepCells : Doing /\ handleCellClick4(c) /\ ObserveDeep
  \/ Undoing /\ Undo4 /\ ObserveDeep

SpecDeep == Init /\ [][NextDeep]_vars

----------------------------------------------------------------------------
(* SpecGroup: the 5x5 editors.  A block of two rows by three columns in    *)
(* the bottom right corner is stamped cell by cell; in Select mode single  *)
(* cells and the whole block are rotated, mirrored and deleted             *)

MaxEdits == 2

\* rows 3 and 4, columns 2 to 4
BlockCells == {17, 18, 19, 22, 23, 24}

\* cells offered to a selecting click
GroupTouchCells == {17, 18}

\* the block is filled in row-major order
NextBlockCell == CHOOSE c \in BlockCells :
                   /\ ~hasShape(cells, c)
                   /\ \A b \in BlockCells : b < c => hasShape(cells, b)

Filling == currentMode = "stamp" /\ \E c \in BlockCells : ~hasShape(cells, c)

Editing == currentMode = "select" /\ run.edits < MaxEdits

InitGroup == InitOf(Modes5)

NextGroup ==
  \/ \E c \in BlockCells : Filling /\ c = NextBlockCell /\ handleCellClick(c) /\ ObserveGroup
  \/ \E col \in ColorSet :
        /\ currentMode = "stamp" /\ Len(history) <= 1 /\ col # currentColor
        /\ ColorClick(col)
        /\ ObserveGroup
  \/ currentMode = "stamp" /\ history # <<>> /\ ModeClick("select") /\ ObserveGroup
  \/ \E c \in GroupTouchCells : Editing /\ hasShape(cells, c) /\ handleCellClick(c) /\ ObserveGroup
  \/ Editing /\ SelectAll /\ ObserveGroup
  \/ currentMode = "stamp" /\ history # <<>> /\ SelectAll /\ ObserveGroup
  \/ Editing /\ Rotate /\ ObserveGroup
  \/ Editing /\ MirrorX /\ ObserveGroup
  \/ Editing /\ MirrorY /\ ObserveGroup
  \/ Editing /\ Delete /\ ObserveGroup
  \/ run.edits > 0 /\ Undo /\ ObserveGroup

SpecGroup == InitGroup /\ [][NextGroup]_vars

----------------------------------------------------------------------------
(* SpecOutput: the pages that export SVG.  A few cells are stamped, the    *)
(* output size is chosen, the board is randomized, cleared and exported    *)

MaxOutputOps == 2

OpenOutput == Len(history) < MaxOutputOps

\* (0,3), (2,2) and (4,4)
ExportCells == {CellAt(0, 3), CellAt(2, 2), CellAt(4, 4)}

AllOutputSizes == 2 .. 5

OutputDraws ==
  RandomDraws \cup {[t |-> "square", col |-> COLORS.yellow, r |-> 1, gaps |-> "all"]}

InitOutput == InitOf(AllVariants \ {"PNG4"})

NextOutput ==
  \/ \E c \in ExportCells :
        OpenOutput /\ currentMode = "stamp" /\ handleCellClick(c) /\ Observe
  \/ \E c \in ExportCells :
        OpenOutput /\ ~hasShape(cells, c) /\ handleCellClickV1(c) /\ Observe
  \/ \E m \in {"stamp", "select"} :
        OpenOutput /\ m # currentMode /\ ModeClick(m) /\ Observe
  \/ \E n \in AllOutputSizes :
        OpenOutput /\ n # currentOutputSize /\ OutputSizeClick(n) /\ Observe
  \/ \E d \in OutputDraws : OpenOutput /\ Randomize(d) /\ Observe
  \/ OpenOutput /\ history # <<>> /\ Clear /\ Observe
  \/ Undo /\ Observe
  \/ Export /\ Observe

SpecOutput == InitOutput /\ [][NextOutput]_vars

----------------------------------------------------------------------------
(* SpecCycle: the two 4x4 editors.  Two cells are clicked through the      *)
(* create, rotate, remove cycle under both colours                         *)

MaxCycleOps == 6

OpenCycle == run.ops < MaxCycleOps

\* (0,0) and (1,1)
CycleCells == {0, 5}

InitCycle == InitOf(Editors4)

\* clicks and clears are counted, undos are not
ObserveCycle ==
  /\ run' = IF Mutating(last') THEN [run EXCEPT !.ops = @ + 1] ELSE run
  /\ shadow' = shadow

NextCycle ==
  \/ \E c \in CycleCells : OpenCycle /\ handleCellClick4(c) /\ ObserveCycle
  \/ \E c \in CycleCells : OpenCycle /\ handleCellClick3(c) /\ ObserveCycle
  \/ \E col \in PngColors : OpenCycle /\ col # currentColor /\ ColorClick(col) /\ ObserveCycle
  \/ OpenCycle /\ Clear4 /\ ObserveCycle
  \/ OpenCycle /\ Clear3 /\ ObserveCycle
  \/ history # <<>> /\ Undo4 /\ ObserveCycle

SpecCycle == InitCycle /\ [][NextCycle]_vars

----------------------------------------------------------------------------
(* SpecPng: the PNG download of the two 4x4 editors.  Cells are clicked    *)
(* and the grid is cleared and undone while html2canvas calls are pending; *)
(* SpecPngFair: every pending call settles                                 *)

MaxPngOps == 3

MaxRendering == 2

OpenPng == run.ops < MaxPngOps

InitPng == InitOf(Editors4)

Settle ==
  \E k \in DOMAIN rendering : Rendered4(k) \/ Rejected4(k) \/ Rendered3(k) \/ Rejected3(k)

NextPng ==
  \/ \E c \in CycleCells : OpenPng /\ handleCellClick4(c) /\ ObserveCycle
  \/ \E c \in CycleCells : OpenPng /\ handleCellClick3(c) /\ ObserveCycle
  \/ OpenPng /\ Clear4 /\ ObserveCycle
  \/ OpenPng /\ Clear3 /\ ObserveCycle
  \/ history # <<>> /\ Undo4 /\ ObserveCycle
  \/ \E loaded \in BOOLEAN :
        Len(rendering) < MaxRendering /\ Download4(loaded) /\ ObserveCycle
  \/ \E loaded \in BOOLEAN :
        Len(rendering) < MaxRendering /\ Download3(loaded) /\ ObserveCycle
  \/ \E k \in 1 .. MaxRendering : Rendered4(k) /\ ObserveCycle
  \/ \E k \in 1 .. MaxRendering : Rejected4(k) /\ ObserveCycle
  \/ \E k \in 1 .. MaxRendering : Rendered3(k) /\ ObserveCycle
  \/ \E k \in 1 .. MaxRendering : Rejected3(k) /\ ObserveCycle

SpecPng == InitPng /\ [][NextPng]_vars

SpecPngFair == SpecPng /\ WF_vars(Settle /\ ObserveCycle)

----------------------------------------------------------------------------
(* SpecPointer: a shape is stamped, selected and dragged; the pointer      *)
(* moves over every point of grid rectangles of a few sizes                *)

MaxSide == 7

\* rect.width and rect.height
Sides == {5, MaxSide}

\* pointer offsets from the rectangle's corner, one step outside included
Offsets == (0 - 1) .. (MaxSide + 1)

InitPointer == InitOf(DragVariants)

NextPointer ==
  \/ \E c \in MoveStampCells :
        history = <<>> /\ currentMode = "stamp" /\ handleCellClick(c) /\ Observe
  \/ history # <<>> /\ currentMode = "stamp" /\ ModeClick("select") /\ Observe
  \/ \E c \in MoveStampCells :
        /\ currentMode = "select" /\ hasShape(cells, c) /\ Selection = {}
        /\ handleCellClick(c)
        /\ Observe
  \/ \E c \in MoveStampCells : c \in Selection /\ ~isDragging /\ PointerDown(c) /\ Observe
  \/ \E w \in Sides, h \in Sides, x \in Offsets, y \in Offsets :
        /\ x <= w + 1 /\ y <= h + 1
        /\ PointerMove(x, y, [width |-> w, height |-> h])
        /\ Observe
  \/ isDragging /\ PointerCancel /\ Observe

SpecPointer == InitPointer /\ [][NextPointer]_vars

----------------------------------------------------------------------------
(* Properties *)

\* C1: in V5, V9 and SB, when a drop would take some selected shape off the
\* board, the grid, the undo stack, the selection and the anchor stay as
\* they were.
C1_RejectedMoveIsAtomic ==
  [][ ( /\ variant \in DragVariants
        /\ isDragging
        /\ last'.op = "pointerup"
        /\ last'.to # NoCell
        /\ DeltaOrigin # NoCell
        /\ \E k \in Selection :
             /\ hasShape(cells, k)
             /\ OffBoard(RowOf(k) + dRowTo(last'.to), ColOf(k) + dColTo(last'.to)) )
      => ( /\ cells' = cells
           /\ history' = history
           /\ selectedCell' = selectedCell
           /\ multiSelected' = multiSelected ) ]_vars

\* a group drop has just been rejected
C1_Witness ==
  /\ last.op = "pointerup"
  /\ last.out = "blocked"
  /\ Len(multiSelected) >= 2
  /\ \A k \in Selection : hasShape(cells, k)

\* C2: in V5, V9 and SB, a drop with a non-zero delta whose destinations are
\* all on the board leaves every selected shape, unchanged, at source + delta
\* and empties every source that is no member's destination, overlap or not.
C2_MoveRelocatesEveryMember ==
  [][ ( /\ variant \in DragVariants
        /\ isDragging
        /\ last'.op = "pointerup"
        /\ last'.to # NoCell
        /\ DeltaOrigin # NoCell
        /\ ~(dRowTo(last'.to) = 0 /\ dColTo(last'.to) = 0)
        /\ \A k \in Selection :
             hasShape(cells, k) =>
               ~OffBoard(RowOf(k) + dRowTo(last'.to), ColOf(k) + dColTo(last'.to)) )
      => LET dR      == dRowTo(last'.to)
             dC      == dColTo(last'.to)
             members == {k \in Selection : hasShape(cells, k)}
             dests   == {CellAt(RowOf(k) + dR, ColOf(k) + dC) : k \in members}
         IN  /\ \A k \in members :
                  cells'[CellAt(RowOf(k) + dR, ColOf(k) + dC)] = cells[k]
             /\ \A k \in members \ dests : cells'[k] = Null ]_vars

\* a group of two has just moved onto one of its own source cells
C2_Witness ==
  /\ last.op = "pointerup"
  /\ last.out = "moved"
  /\ Len(multiSelected) = 2
  /\ \A d \in Range(multiSelected) : hasShape(cells, d)
  /\ \E d \in Range(multiSelected) : history[Len(history)][d] # Null

\* C3: in V5, V9 and SB, moving a single selected shape onto a cell that
\* holds another shape empties the source and leaves exactly the moved
\* shape's data in the destination; nothing else changes.
C3_MoveOverwritesDestination ==
  [][ ( /\ variant \in DragVariants
        /\ isDragging
        /\ last'.op = "pointerup"
        /\ last'.to # NoCell
        /\ \E a \in Cells :
             /\ Selection = {a}
             /\ DeltaOrigin = a
             /\ a # last'.to
             /\ hasShape(cells, a)
             /\ hasShape(cells, last'.to) )
      => \E a \in Cells :
           /\ Selection = {a}
           /\ cells' = [cells EXCEPT ![a] = Null, ![last'.to] = cells[a]] ]_vars

\* A was at (0,0), a different B at (1,1); A has just been dropped on (1,1)
C3_Witness ==
  /\ last = LastDrop("moved", 6)
  /\ Selection = {6}
  /\ history[Len(history)][0] # Null
  /\ history[Len(history)][6] # Null
  /\ history[Len(history)][0] # history[Len(history)][6]
  /\ readCellData(cells[6]) = history[Len(history)][0]
  /\ FilledCells(cells) = <<6>>

\* C4: an Undo with a non-empty history leaves the grid exactly as it stood
\* before the most recent mutating operation.
C4_UndoRestoresPreviousGrid ==
  [][ (last'.op = "undo" /\ history # <<>>)
      => ( /\ shadow # <<>>
           /\ cells' = shadow[Len(shadow)].cells
           /\ clickCount' = shadow[Len(shadow)].clickCount ) ]_vars

\* an Undo has just brought shapes back while an older snapshot remains
C4_Witness ==
  /\ last = Last("undo", "restored")
  /\ history # <<>>
  /\ cells # EmptyCells(variant)

\* C5 as stated: after k mutating operations on the empty grid and k Undo
\* clicks the grid is empty again, for any k.
C5_UndoKTimes ==
  (run.ops > 0 /\ run.undos = run.ops) => cells = EmptyCells(variant)

\* C5 amended: the same for k up to the history cap.
C5_UndoKTimesWithinCap ==
  (run.ops > 0 /\ run.ops <= HISTORY_MAX /\ run.undos = run.ops)
    => cells = EmptyCells(variant)

\* HISTORY_MAX operations have been undone one by one
C5_Witness ==
  /\ run.ops = HISTORY_MAX
  /\ run.undos = HISTORY_MAX
  /\ cells = EmptyCells(variant)

\* C6: the undo stack never holds more than 100 snapshots; a push onto a
\* full stack drops the oldest and keeps the rest in order; once the first
\* snapshot is evicted no run of undos brings the empty grid back.
C6_HistoryCap ==
  /\ [](Len(history) <= HISTORY_MAX)
  /\ [][ (Mutating(last') /\ Len(history) = HISTORY_MAX)
         => ( /\ Len(history') = HISTORY_MAX
              /\ \A i \in 1 .. (HISTORY_MAX - 1) : history'[i] = history[i + 1]
              /\ history'[HISTORY_MAX] =
                   IF variant = "PNG4" THEN snapshot4(cells, clickCount)
                                       ELSE snapshot(cells) ) ]_vars
  /\ []((run.ops = HISTORY_MAX + 1 /\ run.undos >= HISTORY_MAX)
          => (history = <<>> /\ cells # EmptyCells(variant)))

\* the 101st operation has just evicted the oldest snapshot
C6_Witness ==
  /\ run.ops = HISTORY_MAX + 1
  /\ run.undos = 0
  /\ Len(history) = HISTORY_MAX

\* C7: an Undo with an empty history changes no cell, leaves the history
\* empty and the mode as it was, and does not throw.
C7_UndoOnEmptyHistory ==
  [][ (last'.op = "undo" /\ history = <<>>)
      => ( /\ cells' = cells
           /\ clickCount' = clickCount
           /\ history' = <<>>
           /\ currentMode' = currentMode
           /\ last'.out # "threw" ) ]_vars

\* Undo has just been clicked in Select mode with nothing to undo
C7_Witness ==
  /\ last = Last("undo", "empty")
  /\ history = <<>>
  /\ currentMode = "select"

\* C8: every mutating operation pushes exactly one snapshot, that of the
\* grid before it: the stack grows by one, or stays at 100 with the oldest
\* dropped.
C8_OneSnapshotPerOperation ==
  [][ Mutating(last')
      => ( /\ IF Len(history) < HISTORY_MAX
                THEN /\ Len(history') = Len(history) + 1
                     /\ SubSeq(history', 1, Len(history)) = history
                ELSE /\ Len(history') = HISTORY_MAX
                     /\ \A i \in 1 .. (HISTORY_MAX - 1) : history'[i] = history[i + 1]
           /\ history'[Len(history')] =
                IF variant = "PNG4" THEN snapshot4(cells, clickCount)
                                    ELSE snapshot(cells) ) ]_vars

\* a group delete has just emptied two or more cells
C8_Witness ==
  /\ last = Last("delete", "group")
  /\ Cardinality({i \in DOMAIN cells :
                    history[Len(history)][i] # Null /\ cells[i] = Null}) >= 2

\* C9: in V5, V9 and SB every occupied cell's rotation is 0, 90, 180 or 270.
C9_RotationDomain ==
  variant \in DragVariants =>
    \A i \in DOMAIN cells :
      cells[i] # Null => cells[i].rotation \in {String(r) : r \in Rotations}

\* Rotate has just turned a shape that stood at 270
C9_Witness ==
  /\ variant \in DragVariants
  /\ last = Last("rotate", "applied")
  /\ \E c \in Selection :
       /\ history[Len(history)][c] # Null
       /\ history[Len(history)][c].rotation = 270
       /\ cells[c].rotation = "0"

\* C10: after four Rotate operations in a row the selected cell holds the
\* data it held before the first of them: rotation, kind, colour and both
\* mirror flags.
C10_RotatePeriodFour ==
  (variant # "PNG4" /\ run.streak = 4) =>
    /\ Selection # {}
    /\ \A c \in Selection :
         readCellData(cells[c]) = history[Len(history) - 3][c]

\* four Rotates have just brought a shape back to 90
C10_Witness ==
  /\ run.streak = 4
  /\ variant = "V5"
  /\ last = Last("rotate", "applied")
  /\ \E c \in Selection : cells[c] # Null /\ cells[c].rotation = "90"

\* C11: MirrorX on a single selected cell toggles mirrorX and leaves mirrorY
\* and the rotation as they were, MirrorY likewise; two MirrorX (MirrorY)
\* clicks in a row bring the flag back to the value it had before the first.
C11_MirrorInvolution ==
  [][ ( /\ last'.op \in {"mirrorX", "mirrorY"}
        /\ last'.out = "applied"
        /\ Cardinality(Selection) = 1 )
      => \A c \in Selection :
           LET d  == readCellData(cells[c])
               d1 == readCellData(cells'[c])
           IN  /\ d # Null /\ d1 # Null
               /\ d1.rotation = d.rotation
               /\ last'.op = "mirrorX" =>
                    /\ d1.mirrorX = ~d.mirrorX
                    /\ d1.mirrorY = d.mirrorY
                    /\ last = last' => d1.mirrorX = history[Len(history)][c].mirrorX
               /\ last'.op = "mirrorY" =>
                    /\ d1.mirrorY = ~d.mirrorY
                    /\ d1.mirrorX = d.mirrorX
                    /\ last = last' => d1.mirrorY = history[Len(history)][c].mirrorY ]_vars

\* a second MirrorX has just switched the flag of a single selected cell off
C11_Witness ==
  /\ last = Last("mirrorX", "applied")
  /\ Len(history) >= 2
  /\ \E c \in Selection :
       /\ Selection = {c}
       /\ history[Len(history) - 1][c] # Null
       /\ history[Len(history) - 1][c].mirrorX = FALSE
       /\ history[Len(history)][c].mirrorX = TRUE
       /\ readCellData(cells[c]).mirrorX = FALSE

\* C12: in Stamp mode of V2, V4, V5, V9 and SB a click sets the clicked cell
\* to the current kind and colour with rotation 0 and both mirror flags off,
\* whatever it held; no other cell changes and the selection is empty.
C12_StampIsFullReplace ==
  [][ ( /\ variant \in {"V2", "V4", "V5", "V9", "SB"}
        /\ currentMode = "stamp"
        /\ last'.op = "click" )
      => /\ \E c \in Cells :
              /\ readCellData(cells'[c]) =
                   [shapeType |-> currentShapeType, color |-> currentColor,
                    rotation |-> 0, mirrorX |-> FALSE, mirrorY |-> FALSE]
              /\ \A i \in Cells \ {c} : cells'[i] = cells[i]
         /\ selectedCell' = NoCell
         /\ multiSelected' = <<>> ]_vars

\* a rounded shape has just been stamped over a shape that was turned
C12_Witness ==
  /\ last = Last("click", "stamp")
  /\ \E c \in Cells :
       /\ history[Len(history)][c] # Null
       /\ history[Len(history)][c].rotation # 0
       /\ readCellData(cells[c]).rotation = 0
       /\ readCellData(cells[c]).shapeType = "rounded"

\* C13: in V5, V9 and SB the primary cell / anchor belongs to every
\* non-empty selection, a non-empty multiSelected of V5 and V9 contains
\* selectedCell, and every selected cell holds a shape.
C13_SelectionInvariants ==
  variant \in DragVariants =>
    /\ Selection # {} => selectedCell \in Selection
    /\ (variant \in {"V5", "V9"} /\ multiSelected # <<>>)
         => selectedCell \in Range(multiSelected)
    /\ \A c \in Selection : hasShape(cells, c)

\* a group of two or more has just been moved and is selected where it landed
C13_Witness ==
  /\ variant \in DragVariants
  /\ last.op = "pointerup"
  /\ last.out = "moved"
  /\ Len(multiSelected) >= 2
  /\ selectedCell = multiSelected[1]

\* C14: in V5, V9 and SB a switch from Select to Stamp leaves the selection
\* empty and the anchor unset, so that no state in Stamp mode has a selection.
C14_StampModeHasNoSelection ==
  /\ [][ ( /\ variant \in DragVariants
           /\ currentMode = "select"
           /\ last'.op = "mode"
           /\ currentMode' = "stamp" )
         => (selectedCell' = NoCell /\ multiSelected' = <<>>) ]_vars
  /\ []( (variant \in DragVariants /\ currentMode = "stamp")
           => (selectedCell = NoCell /\ multiSelected = <<>>) )

\* C15 as stated: after every Clear and every Undo click, whatever the
\* history holds, the selection is empty and the anchor unset.
C15_ClearAndUndoClearSelection ==
  [][ last'.op \in {"clear", "undo"}
      => (selectedCell' = NoCell /\ multiSelected' = <<>>) ]_vars

\* C15 amended: the same for every Clear, and for every Undo that finds a
\* snapshot to restore.
C15_ClearAndRestoringUndoClearSelection ==
  [][ (last'.op = "clear" \/ (last'.op = "undo" /\ history # <<>>))
      => (selectedCell' = NoCell /\ multiSelected' = <<>>) ]_vars

\* Clear has just been clicked right after a Rotate, that is, with a cell
\* selected
C15_Witness ==
  /\ last = Last("clear", "")
  /\ Len(history) >= 2
  /\ \E c \in DeepCells :
       /\ history[Len(history)][c] # Null
       /\ history[Len(history) - 1][c] # Null
       /\ history[Len(history)][c].rotation # history[Len(history) - 1][c].rotation
  /\ selectedCell = NoCell
  /\ multiSelected = <<>>

\* The group transforms as the specification describes them: the selection's
\* bounding box, H rows by W columns, is turned or reflected as one piece.
Least(S) == CHOOSE x \in S : \A y \in S : x <= y
Greatest(S) == CHOOSE x \in S : \A y \in S : x >= y
BoxTop(sel) == Least({RowOf(k) : k \in sel})
BoxLeft(sel) == Least({ColOf(k) : k \in sel})
BoxH(sel) == Greatest({RowOf(k) : k \in sel}) - BoxTop(sel) + 1
BoxW(sel) == Greatest({ColOf(k) : k \in sel}) - BoxLeft(sel) + 1

\* the turned box, W rows by H columns, fits from the same top-left corner
RotatedFits(sel) == BoxTop(sel) + BoxW(sel) <= N /\ BoxLeft(sel) + BoxH(sel) <= N

\* a box of two rows by three columns whose last column is the board's
FlushRight2x3(sel) ==
  BoxH(sel) = 2 /\ BoxW(sel) = 3 /\ BoxLeft(sel) + BoxW(sel) = N

\* local (lr, lc) -> (lc, H-1-lr)
RotatedCell(sel, k) ==
  CellAt(BoxTop(sel) + (ColOf(k) - BoxLeft(sel)),
         BoxLeft(sel) + (BoxH(sel) - 1 - (RowOf(k) - BoxTop(sel))))

\* MirrorX: lc -> W-1-lc; MirrorY: lr -> H-1-lr
MirroredCell(sel, k, kind) ==
  IF kind = "mirrorX"
    THEN CellAt(RowOf(k), BoxLeft(sel) + (BoxW(sel) - 1 - (ColOf(k) - BoxLeft(sel))))
    ELSE CellAt(BoxTop(sel) + (BoxH(sel) - 1 - (RowOf(k) - BoxTop(sel))), ColOf(k))

Turned(d) == [d EXCEPT !.rotation = (d.rotation + 90) % 360]

Reflected(d, kind) ==
  IF kind = "mirrorX"
    THEN [d EXCEPT !.mirrorX = ~d.mirrorX, !.rotation = (360 - d.rotation) % 360]
    ELSE [d EXCEPT !.mirrorY = ~d.mirrorY, !.rotation = (360 - d.rotation) % 360]

RigidRotate(g, sel) ==
  [i \in DOMAIN g |->
     IF \E k \in sel : RotatedCell(sel, k) = i
       THEN ShapeNode(Turned(readCellData(g[CHOOSE k \in sel : RotatedCell(sel, k) = i])))
     ELSE IF i \in sel THEN Null
     ELSE g[i]]

RigidMirror(g, sel, kind) ==
  [i \in DOMAIN g |->
     IF \E k \in sel : MirroredCell(sel, k, kind) = i
       THEN ShapeNode(Reflected(
              readCellData(g[CHOOSE k \in sel : MirroredCell(sel, k, kind) = i]), kind))
     ELSE IF i \in sel THEN Null
     ELSE g[i]]

\* what the edit handlers do to a group: every member is edited where it stands
EditedInPlace(g, sel, kind) ==
  [i \in DOMAIN g |->
     IF i \in sel /\ g[i] # Null
       THEN LET d == readCellData(g[i])
            IN  ShapeNode(CASE kind = "rotate"  -> Turned(d)
                            [] kind = "mirrorX" -> [d EXCEPT !.mirrorX = ~d.mirrorX]
                            [] kind = "mirrorY" -> [d EXCEPT !.mirrorY = ~d.mirrorY])
       ELSE g[i]]

\* C16 as stated: in SB, Rotate on a selection of more than one cell moves
\* each member from local (lr, lc) of the bounding box to (lc, H-1-lr) and
\* adds 90 to its rotation, mod 360.
C16_GroupRotateIsRigid ==
  [][ ( /\ variant = "SB"
        /\ currentMode = "select"
        /\ Cardinality(Selection) > 1
        /\ RotatedFits(Selection)
        /\ last'.op = "rotate" )
      => cells' = RigidRotate(cells, Selection) ]_vars

\* C16 amended: in SB, Rotate on a selection of more than one cell leaves
\* each member in its cell and adds 90 to its rotation, mod 360; no other
\* cell and no selection changes.
C16_GroupRotateInPlace ==
  [][ ( /\ variant = "SB"
        /\ currentMode = "select"
        /\ Cardinality(Selection) > 1
        /\ last'.op = "rotate" )
      => ( /\ cells' = EditedInPlace(cells, Selection, "rotate")
           /\ selectedCell' = selectedCell
           /\ multiSelected' = multiSelected ) ]_vars

\* SB: the whole block has just been rotated a second time
C16_Witness ==
  /\ variant = "SB"
  /\ last = Last("rotate", "applied")
  /\ Selection = BlockCells
  /\ \A c \in BlockCells :
       /\ history[Len(history)][c] # Null
       /\ history[Len(history)][c].rotation = 90
       /\ readCellData(cells[c]).rotation = 180

\* C17 as stated: in SB, MirrorX (MirrorY) on a selection of more than one
\* cell moves each member to local column W-1-lc (local row H-1-lr), toggles
\* its mirrorX (mirrorY) flag and replaces its rotation r by (360 - r) mod 360.
C17_GroupMirrorReflects ==
  [][ ( /\ variant = "SB"
        /\ currentMode = "select"
        /\ Cardinality(Selection) > 1
        /\ last'.op \in {"mirrorX", "mirrorY"} )
      => cells' = RigidMirror(cells, Selection, last'.op) ]_vars

\* C17 amended: in SB, MirrorX (MirrorY) on a selection of more than one cell
\* leaves each member in its cell with its rotation and toggles its mirrorX
\* (mirrorY) flag; no other cell and no selection changes.
C17_GroupMirrorInPlace ==
  [][ ( /\ variant = "SB"
        /\ currentMode = "select"
        /\ Cardinality(Selection) > 1
        /\ last'.op \in {"mirrorX", "mirrorY"} )
      => ( /\ cells' = EditedInPlace(cells, Selection, last'.op)
           /\ selectedCell' = selectedCell
           /\ multiSelected' = multiSelected ) ]_vars

\* SB: a group whose members stand at 90 has just been mirrored top to bottom
C17_Witness ==
  /\ variant = "SB"
  /\ last = Last("mirrorY", "applied")
  /\ Cardinality(Selection) > 1
  /\ \A c \in Selection :
       /\ history[Len(history)][c] # Null
       /\ history[Len(history)][c].rotation = 90
       /\ ~history[Len(history)][c].mirrorY
       /\ readCellData(cells[c]).rotation = 90
       /\ readCellData(cells[c]).mirrorY

\* C18 as stated: on the 5x5 boards, Rotate on a group whose bounding box is
\* two rows by three columns flush against the right edge, or whose turned
\* box does not fit from the same top-left corner, changes neither the grid
\* nor the selection.
C18_GroupRotateRejected ==
  [][ ( /\ variant \in Modes5
        /\ currentMode = "select"
        /\ Cardinality(Selection) > 1
        /\ FlushRight2x3(Selection) \/ ~RotatedFits(Selection)
        /\ last'.op = "rotate" )
      => ( /\ cells' = cells
           /\ selectedCell' = selectedCell
           /\ multiSelected' = multiSelected ) ]_vars

\* C18 amended: in V4, V5 and V9 such a Rotate changes neither the grid, the
\* history nor the selection (Rotate is off for every group); in SB it is not
\* rejected: the selection stays and every member turns in its cell.
C18_GroupRotateRejectedWhereGated ==
  [][ ( /\ variant \in Modes5
        /\ currentMode = "select"
        /\ Cardinality(Selection) > 1
        /\ FlushRight2x3(Selection) \/ ~RotatedFits(Selection)
        /\ last'.op = "rotate" )
      => ( /\ selectedCell' = selectedCell
           /\ multiSelected' = multiSelected
           /\ IF variant = "SB"
                THEN cells' = EditedInPlace(cells, Selection, "rotate")
                ELSE cells' = cells /\ history' = history ) ]_vars

\* V4, V5 or V9: Rotate has just been clicked with the whole block selected
C18_Witness ==
  /\ variant \in {"V4", "V5", "V9"}
  /\ last = Last("rotate", "ignored")
  /\ currentMode = "select"
  /\ Selection = BlockCells
  /\ FlushRight2x3(Selection)
  /\ ~RotatedFits(Selection)

\* C19: in Select mode of V5 and V9, Rotate, MirrorX and MirrorY act on the
\* selected cell whenever the selection is exactly one occupied cell, however
\* it was made, and change nothing when more than one cell is selected.
C19_GroupGatingBySize ==
  [][ ( /\ variant \in {"V5", "V9"}
        /\ currentMode = "select"
        /\ last'.op \in {"rotate", "mirrorX", "mirrorY"} )
      => ( /\ Cardinality(Selection) > 1 => cells' = cells
           /\ \A c \in Cells :
                (Selection = {c} /\ hasShape(cells, c))
                  => cells' = EditedInPlace(cells, {c}, last'.op) ) ]_vars

\* C20: in Select mode of V5, V9 and SB, Delete empties every selected cell,
\* leaves the other cells as they were and the selection empty; with nothing
\* selected it changes no cell and pushes no snapshot.
C20_DeleteClearsExactlySelection ==
  [][ ( /\ variant \in DragVariants
        /\ currentMode = "select"
        /\ last'.op = "delete" )
      => IF Selection # {}
           THEN /\ cells' = [i \in DOMAIN cells |->
                               IF i \in Selection THEN Null ELSE cells[i]]
                /\ selectedCell' = NoCell
                /\ multiSelected' = <<>>
           ELSE /\ cells' = cells
                /\ history' = history ]_vars

\* the whole block has just been deleted as a group
C20_Witness ==
  /\ variant \in DragVariants
  /\ last = Last("delete", "group")
  /\ \A c \in BlockCells : history[Len(history)][c] # Null /\ cells[c] = Null
  /\ selectedCell = NoCell
  /\ multiSelected = <<>>

----------------------------------------------------------------------------
(* Randomize and export *)

Occupied(g) == {i \in DOMAIN g : g[i] # Null}

\* C21: in V9 and SB, for every output size S in 2..5 and whatever the board
\* held, after Randomize every occupied cell lies in rows and columns
\* floor((5-S)/2) .. floor((5-S)/2)+S-1, that window lies on the board, and
\* every cell outside it is empty.
C21_RandomizeContainment ==
  [][(last'.op = "randomize" /\ variant \in {"V9", "SB"}
        /\ currentOutputSize \in 2 .. 5)
       => LET S  == currentOutputSize
              lo == (5 - S) \div 2
              hi == lo + S
          IN  /\ 0 <= lo /\ hi <= 5
              /\ \A i \in Cells :
                   (RowOf(i) \in lo .. (hi - 1) /\ ColOf(i) \in lo .. (hi - 1))
                   \/ cells'[i] = Null]_vars

\* a shape stamped at (0,3) is gone after Randomize with output size 3, and
\* the centre cell is filled
C21_Witness ==
  /\ last.op = "randomize"
  /\ currentOutputSize = 3
  /\ shadow # <<>>
  /\ shadow[Len(shadow)].cells[3] # Null
  /\ cells[3] = Null
  /\ cells[12] # Null

\* C22: in SB, after Randomize with output size S the occupied cells are
\* exactly the cells of the centred S-by-S window, and every generated shape
\* has mirrorX = mirrorY = false, a rotation in {0, 90, 180, 270}, a kind in
\* {square, rounded} and a colour in {blue, yellow}.
C22_RandomizeFillsWindow ==
  [][(last'.op = "randomize" /\ variant = "SB")
       => LET S  == currentOutputSize
              lo == (5 - S) \div 2
              window == {i \in Cells : /\ RowOf(i) \in lo .. (lo + S - 1)
                                       /\ ColOf(i) \in lo .. (lo + S - 1)}
          IN  /\ Occupied(cells') = window
              /\ \A i \in window :
                   LET d == readCellData(cells'[i])
                   IN  /\ d.mirrorX = FALSE /\ d.mirrorY = FALSE
                       /\ d.rotation \in {0, 90, 180, 270}
                       /\ d.shapeType \in {"square", "rounded"}
                       /\ d.color \in {COLORS.blue, COLORS.yellow}]_vars

\* SB after Randomize with output size 4: sixteen rounded yellow shapes
C22_Witness ==
  /\ variant = "SB"
  /\ last.op = "randomize"
  /\ currentOutputSize = 4
  /\ Cardinality(Occupied(cells)) = 16
  /\ cells[4] = Null
  /\ readCellData(cells[6]).shapeType = "rounded"
  /\ readCellData(cells[6]).color = COLORS.yellow

\* C23: on every page that exports SVG, a Download click while no cell is
\* occupied produces no document, raises the "No artwork found" alert and
\* leaves grid, selection, mode and undo stack as they were.
C23_EmptyExportRejected ==
  [][(last'.op = "download" /\ Occupied(cells) = {})
       => /\ last'.out = "alert"
          /\ last'.alert = NoArtwork
          /\ "doc" \notin DOMAIN last'
          /\ UNCHANGED <<cells, history, currentMode, selectedCell, multiSelected>>]_vars

\* Download on a board that was stamped and then cleared, in Select mode
C23_Witness ==
  /\ last.op = "download"
  /\ last.out = "alert"
  /\ Occupied(cells) = {}
  /\ Len(history) = 2
  /\ variant = "V5"

\* C24: for a non-empty grid findUsedBounds returns the least and greatest
\* row and column over the occupied cells (shapes at (2,2) and (4,4) of the
\* 5x5 board: 2, 4, 2, 4); the document declares width
\* (maxCol-minCol+1)*CELL_PX and height (maxRow-minRow+1)*CELL_PX, and every
\* occupied cell (row, col) is emitted exactly once, at
\* ((col-minCol)*CELL_PX, (row-minRow)*CELL_PX), inside the declared canvas.
C24_ExportCropTight ==
  [][(last'.op = "download" /\ Occupied(cells) # {})
       => LET occ    == Occupied(cells)
              minRow == Least({RowOf(i) : i \in occ})
              maxRow == Greatest({RowOf(i) : i \in occ})
              minCol == Least({ColOf(i) : i \in occ})
              maxCol == Greatest({ColOf(i) : i \in occ})
              px     == CELL_PX(variant)
          IN  /\ findUsedBounds(cells) = [minRow |-> minRow, maxRow |-> maxRow,
                                          minCol |-> minCol, maxCol |-> maxCol]
              /\ (N = 5 /\ occ = {12, 24})
                   => findUsedBounds(cells) = [minRow |-> 2, maxRow |-> 4,
                                               minCol |-> 2, maxCol |-> 4]
              /\ last'.out = "svg"
              /\ last'.doc.width = (maxCol - minCol + 1) * px
              /\ last'.doc.height = (maxRow - minRow + 1) * px
              /\ Len(last'.doc.shapes) = Cardinality(occ)
              /\ \A i \in occ :
                   LET x == (ColOf(i) - minCol) * px
                       y == (RowOf(i) - minRow) * px
                   IN  /\ Cardinality({k \in DOMAIN last'.doc.shapes :
                                         /\ last'.doc.shapes[k].x = x
                                         /\ last'.doc.shapes[k].y = y}) = 1
                       /\ 0 <= x /\ x + px <= last'.doc.width
                       /\ 0 <= y /\ y + px <= last'.doc.height]_vars

\* shapes at (2,2) and (4,4) of a 5x5 board exported as a 300 by 300 document
C24_Witness ==
  /\ N = 5
  /\ Occupied(cells) = {12, 24}
  /\ last.op = "download"
  /\ last.out = "svg"
  /\ last.doc.width = 300
  /\ last.doc.height = 300
  /\ Len(last.doc.shapes) = 2

----------------------------------------------------------------------------
(* Moves, Select all, the 4x4 click cycle, edit gating *)

Shifted(c, dR, dC) == CellAt(RowOf(c) + dR, ColOf(c) + dC)

\* C25: after a successful move in V5, V9 and SB there is one non-zero delta
\* by which every selected shape moved, the new selection is exactly
\* {c + delta : c in the old selection} and the new anchor is the old anchor
\* + delta.
C25_SelectionFollowsMove ==
  [][(last'.op = "pointerup" /\ last'.out = "moved" /\ variant \in DragVariants)
       => \E dR \in (1 - N) .. (N - 1), dC \in (1 - N) .. (N - 1) :
            /\ dR # 0 \/ dC # 0
            /\ Selection # {}
            /\ \A c \in Selection :
                 /\ ~OffBoard(RowOf(c) + dR, ColOf(c) + dC)
                 /\ cells[c] # Null
                 /\ cells'[Shifted(c, dR, dC)] = cells[c]
            /\ Selection' = {Shifted(c, dR, dC) : c \in Selection}
            /\ selectedCell # NoCell
            /\ selectedCell' = Shifted(selectedCell, dR, dC)]_vars

\* a group of two was dragged by its second member: both shapes moved and
\* the anchor is the first member's new cell
C25_Witness ==
  /\ last.op = "pointerup"
  /\ last.out = "moved"
  /\ Len(multiSelected) = 2
  /\ selectedCell = multiSelected[1]
  /\ selectedCell # last.to
  /\ shadow # <<>>
  /\ shadow[Len(shadow)].cells[0] # Null
  /\ shadow[Len(shadow)].cells[6] # Null
  /\ cells[0] = Null
\* C26: in Select mode of V4, V5, V9 and SB, Select all makes the selection
\* exactly the set of occupied cells, with the first occupied cell in
\* row-major order as the anchor (none when the board is empty), and changes
\* neither the grid nor the undo stack; in Stamp mode it changes nothing.
C26_SelectAll ==
  [][(last'.op = "selectAll" /\ variant \in {"V4", "V5", "V9", "SB"})
       => IF currentMode = "select"
            THEN /\ Selection' = Occupied(cells)
                 /\ selectedCell' = IF Occupied(cells) = {} THEN NoCell
                                    ELSE Least(Occupied(cells))
                 /\ UNCHANGED <<cells, history, currentMode>>
            ELSE UNCHANGED <<cells, history, currentMode, selectedCell,
                             multiSelected>>]_vars

\* Select all on the full block in V4: the six cells are selected and the
\* anchor is (3,2)
C26_Witness ==
  /\ last = Last("selectAll", "group")
  /\ currentMode = "select"
  /\ Selection = BlockCells
  /\ selectedCell = 17
  /\ Occupied(cells) = BlockCells
  /\ variant = "V4"
\* C27: in V5, V9 and SB, for a single or a group selection, a drag whose
\* pointerup resolves to the cell its pointerdown started on changes no cell,
\* pushes no snapshot and leaves selection and anchor unchanged.
C27_ZeroDragIsNoOp ==
  [][(last'.op = "pointerup" /\ variant \in DragVariants /\ isDragging
        /\ last'.to = dragFromCell)
       => UNCHANGED <<cells, history, selectedCell, multiSelected>>]_vars
\* the orientations of the click cycle, as they stand in style.transform
Orientations == <<"rotate(0deg)", "rotate(90deg)", "rotate(180deg)", "rotate(270deg)">>

\* one step of the cycle: empty to a shape of the current colour at 0
\* degrees, a shape to the next orientation, the shape at 270 degrees to empty
CycleStep(a, b) ==
  IF a = Null
    THEN b = [color |-> currentColor, transform |-> Orientations[1]]
  ELSE \E k \in 1 .. 4 :
         /\ a.transform = Orientations[k]
         /\ b = IF k = 4 THEN Null ELSE [a EXCEPT !.transform = Orientations[k + 1]]

\* C28: in both 4x4 editors a click on an empty cell or on a shape of the
\* current colour changes that cell alone, one step along
\* empty -> 0 -> 90 -> 180 -> 270 -> empty: the shape turns by 90 degrees on
\* each of the first three clicks after its creation, is removed on the
\* fourth, and the next click creates a fresh shape at 0 degrees.
C28_ClickCycle ==
  [][(last'.op = "click" /\ variant \in Editors4)
       => \E c \in Cells :
            /\ \A i \in Cells \ {c} : cells'[i] = cells[i]
            /\ cells'[c] # cells[c]
            /\ (cells[c] = Null \/ cells[c].color = currentColor)
                 => CycleStep(cells[c], cells'[c])]_vars

\* six clicks on (0,0) under one colour: the undo stack of the PNG editor
\* holds the empty board, the shape at 0, 90, 180 and 270 degrees and the
\* empty board again, and the cell holds a fresh shape at 0 degrees
C28_Witness ==
  /\ variant = "PNG4"
  /\ Len(history) = 6
  /\ history[1].snapshot[0] = Null
  /\ \A k \in 1 .. 4 : /\ history[k + 1].snapshot[0] # Null
                       /\ history[k + 1].snapshot[0].rotation = Orientations[k]
                       /\ history[k + 1].snapshot[0].color = currentColor
  /\ history[6].snapshot[0] = Null
  /\ cells[0] = [color |-> currentColor, transform |-> Orientations[1]]
  /\ last = Last("click", "create")

\* C29: in both 4x4 editors a click on a shape whose colour differs from the
\* current colour changes only that shape's colour: its rotation and the
\* cell's click count are unchanged, and no other cell changes.
C29_RecolourKeepsOrientation ==
  [][(last'.op = "click" /\ variant \in Editors4)
       => \E c \in Cells :
            /\ \A i \in Cells \ {c} : cells'[i] = cells[i]
            /\ cells'[c] # cells[c]
            /\ (cells[c] # Null /\ cells[c].color # currentColor)
                 => /\ cells'[c] # Null
                    /\ cells'[c].color = currentColor
                    /\ cells'[c].transform = cells[c].transform
                    /\ clickCount' = clickCount]_vars

\* a shape turned to 180 degrees was recoloured while (1,1) held a shape
C29_Witness ==
  /\ last = Last("click", "recolour")
  /\ cells[0] # Null
  /\ cells[0].transform = Orientations[3]
  /\ cells[0].color = PNG_OTHER
  /\ clickCount[0] = "2"
  /\ cells[5] # Null
  /\ cells[5].color = PNG_BLUE
\* C30: in V2, V4, V5, V9 and SB, while the mode is Stamp, a click on Rotate,
\* MirrorX, MirrorY or Delete changes no cell and pushes no snapshot,
\* whatever selection is still held.
C30_EditsAreSelectModeOnly ==
  [][(last'.op \in {"rotate", "mirrorX", "mirrorY", "delete"}
        /\ currentMode = "stamp"
        /\ variant \in {"V2", "V4", "V5", "V9", "SB"})
       => UNCHANGED <<cells, history>>]_vars

\* Delete clicked in Stamp mode of V5 while the shape selected before the
\* mode switch is still the selection
C30_Witness ==
  /\ variant = "V5"
  /\ currentMode = "stamp"
  /\ selectedCell # NoCell
  /\ hasShape(cells, selectedCell)
  /\ last = Last("delete", "ignored")

----------------------------------------------------------------------------
(* Frame of single-cell edits, export of the 4x4 editors, gating *)

\* C31: a Stamp on cell c, and a Rotate, MirrorX, MirrorY or Delete with the
\* single selection {c}, change only cell c: every other cell holds exactly
\* the same content before and after.
C31_SingleCellEditsAreLocal ==
  [][/\ (last'.op = "click" /\ last'.out = "stamp")
          => \E c \in Cells :
               /\ cells'[c] # Null
               /\ \A i \in Cells \ {c} : cells'[i] = cells[i]
     /\ (last'.op \in {"rotate", "mirrorX", "mirrorY", "delete"}
           /\ Cardinality(Selection) = 1)
          => \A i \in Cells \ Selection : cells'[i] = cells[i]]_vars

\* (3,3) was rotated as the single selection while the five other cells of
\* the block hold shapes
C31_Witness ==
  /\ last = Last("rotate", "applied")
  /\ Selection = {18}
  /\ Occupied(cells) = BlockCells
  /\ readCellData(cells[18]).rotation = 90
  /\ \A i \in BlockCells \ {18} : readCellData(cells[i]).rotation = 0
\* C32: in the PNG editor the crop rectangle applied to the rasterized
\* canvas is the occupied bounds of the grid that was handed to html2canvas
\* at the Download click, whatever clicks, Clear and Undo ran before the
\* callback; a download requested on a non-empty grid never ends in the
\* "No artwork found" alert.
C32_CropMatchesCapture ==
  [][(last'.op = "rendered" /\ variant = "PNG4" /\ "canvas" \in DOMAIN last'
        /\ Occupied(last'.canvas) # {})
       => LET occ == Occupied(last'.canvas)
              top  == Least({RowOf(i) : i \in occ})
              left == Least({ColOf(i) : i \in occ})
              rows == Greatest({RowOf(i) : i \in occ}) - top + 1
              cols == Greatest({ColOf(i) : i \in occ}) - left + 1
          IN  /\ last'.out = "png"
              /\ last'.crop = [x |-> left * cellPx * 2, y |-> top * cellPx * 2,
                               w |-> cols * cellPx * 2, h |-> rows * cellPx * 2]]_vars

\* C33: in both 4x4 editors the 'exporting' mark put on the grid when a
\* download starts is eventually removed, whether the rasterization succeeds
\* or fails.
C33_ExportMarkIsTemporary == exporting ~> ~exporting
\* C34: in V5, whatever pointer events, mode switches and button clicks were
\* interleaved, a pointerup relocates shapes or pushes a snapshot only if the
\* mode is Select at that moment, and only cells that are selected at that
\* moment, together with the drag-origin cell, are emptied or moved.
C34_MovesOnlyInSelectMode ==
  [][(last'.op = "pointerup" /\ variant = "V5"
        /\ (cells' # cells \/ history' # history))
       => /\ currentMode = "select"
          /\ \A i \in Cells :
               (cells'[i] # cells[i] /\ cells[i] # Null)
                 => i \in Selection \cup {dragFromCell}
                    \/ \E j \in Selection \cup {dragFromCell} :
                         cells'[i] = cells[j]]_vars
\* C35: for a grid rectangle of width W and height H divided into 5 columns
\* and 5 rows, cellFromPointer(x, y) for 0 <= x <= W and 0 <= y <= H is null
\* or the cell (row, col), 0 <= row, col < 5, whose rectangle contains the
\* point; a point on the right or bottom boundary never resolves to a cell
\* of another row or column.
C35_PointerStaysInCell ==
  [][(last'.op = "pointermove" /\ last'.out = "target"
        /\ last'.x \in 0 .. last'.rect.width /\ last'.y \in 0 .. last'.rect.height)
       => \/ last'.cell = NoCell
          \/ LET W   == last'.rect.width
                 H   == last'.rect.height
                 row == last'.cell \div 5
                 col == last'.cell % 5
             IN  /\ last'.cell \in 0 .. 24
                 /\ col * W <= 5 * last'.x /\ 5 * last'.x <= (col + 1) * W
                 /\ row * H <= 5 * last'.y /\ 5 * last'.y <= (row + 1) * H]_vars
\* C36: in V5, V9 and SB the snapshot on top of the history always differs
\* from the current grid, so an Undo with non-empty history always changes at
\* least one cell (stamping identical content, or Clear on an empty board,
\* consumes no undo step).
C36_EveryUndoStepIsVisible ==
  (variant \in DragVariants /\ history # <<>>)
    => history[Len(history)] # snapshot(cells)
\* C37: in the 4x4 PNG editor, in every reachable state, every occupied cell
\* has a click count in 0..3 and a displayed rotation of exactly 90 * click
\* count degrees, and every empty cell has click count 0.
C37_ClickCountConsistent ==
  variant = "PNG4"
    => \A i \in DOMAIN cells :
         IF cells[i] = Null
           THEN clickCount[i] = "0"
           ELSE \E n \in 0 .. 3 :
                  /\ clickCount[i] = String(n)
                  /\ cells[i].transform = RotateCss(90 * n)

\* an Undo has brought back a twice-rotated shape that a later click had changed
C37_Witness ==
  /\ variant = "PNG4"
  /\ last = Last("undo", "restored")
  /\ \E i \in DOMAIN cells : cells[i] # Null /\ clickCount[i] = "2"
  /\ \E i \in DOMAIN cells : cells[i] = Null
\* C38: in V4, in every reachable state, the Rotate, MirrorX and MirrorY
\* buttons are enabled only when activating them would apply the transform:
\* the mode is Select, exactly one occupied cell is selected and no group
\* selection is active.
C38_EnabledEditButtonsAct ==
  (variant = "V4" /\ editEnabled) => requireEditableSingleSelection

====
